---- MODULE Spec2Model ----
(***************************************************************************)
(* Model of the manifest-driven package subsystem of graphiti-openclaw:   *)
(* scripts/migration_sync_lib.py, scripts/delta_contracts.py,             *)
(* scripts/state_migration_export.py and scripts/state_migration_import.py *)
(*                                                                         *)
(* Strings are sequences of tokens.  A token stands for one character or  *)
(* for a run of ordinary name characters: "/" is the path separator, "."  *)
(* a dot, every other token a piece of a file name.  A path segment is a  *)
(* sequence of tokens (<<".", ".">> is the segment `..`), a pathlib path  *)
(* is the sequence of its parts, and an absolute location in the file     *)
(* system is the sequence of segments below the root directory.           *)
(***************************************************************************)
EXTENDS Integers, Sequences, FiniteSets, TLC

VARIABLES
    fs,            \* the file system: existing location -> node (directory or file)
    package_root,  \* the package directory of the scenario (--out of export, --in of import)
    pkg_manifest,  \* <package_root>/package_manifest.json
    last,          \* observable outcome of the most recent command run
    exported,      \* record of the most recent export run that wrote a manifest
    runs,          \* number of command runs so far
    edits,         \* number of outside changes to the trees so far
    rel_path,      \* argument of the path guard (path specification)
    guard,         \* result of the path guard (path specification)
    ext_manifest,  \* an extension's manifest.json (migration specification)
    migrated,      \* result of the last migration of it (migration specification)
    config,        \* the policy and state manifest files under config/
    extensions,    \* the directories under extensions/, in sorted order
    batch          \* observable outcome of the most recent contracts command

vars == <<fs, package_root, pkg_manifest, last, exported, runs, edits, rel_path, guard,
          ext_manifest, migrated, config, extensions, batch>>

---------------------------------------------------------------------------
(* Bounds of the model *)

MaxRuns == 3
MaxEdits == 1
MaxImports == 1
MaxDamage == 2
MaxPathLen == 4

---------------------------------------------------------------------------
(* Strings and pathlib *)

Sep == "/"
Dot == "."
DotDot == <<".", ".">>

Range(s) == {s[i] : i \in 1..Len(s)}

\* a local variable: Body sees the value v under the name it gives it
Bind(v, Body(_)) == Body(v)

\* str.split('/'): the raw segments of a string, empty ones included
RECURSIVE SplitSep(_)
SplitSep(s) ==
    IF s = <<>> THEN << <<>> >>
    ELSE LET rest == SplitSep(Tail(s))
         IN  IF Head(s) = Sep
             THEN << <<>> >> \o rest
             ELSE << <<Head(s)>> \o Head(rest) >> \o Tail(rest)

\* number of leading separators of a string
RECURSIVE LeadingSeps(_)
LeadingSeps(s) ==
    IF s = <<>> \/ Head(s) # Sep THEN 0 ELSE 1 + LeadingSeps(Tail(s))

IsNamedSegment(seg) == seg # <<>> /\ seg # <<Dot>>

\* pathlib.PurePosixPath(s).parts: the root ("/", or "//" for exactly two
\* leading separators) followed by the segments that are neither empty nor "."
PathParts(s) ==
    LET n == LeadingSeps(s)
        root == IF n = 0 THEN <<>>
                ELSE IF n = 2 THEN << <<Sep, Sep>> >>
                ELSE << <<Sep>> >>
    IN  root \o SelectSeq(SplitSep(s), IsNamedSegment)

\* Path.is_absolute() on POSIX: the path has a root
is_absolute(parts) == parts # <<>> /\ Head(Head(parts)) = Sep

\* str(path) / Path.as_posix(): the parts joined by the separator
RECURSIVE JoinParts(_)
JoinParts(parts) ==
    IF parts = <<>> THEN <<>>
    ELSE IF Len(parts) = 1 THEN Head(parts)
    ELSE Head(parts) \o <<Sep>> \o JoinParts(Tail(parts))

ensure_safe_relative_nodots(rel) ==
    LET path == PathParts(rel)
    IN  [ok |-> ~is_absolute(path), path |-> path]

ensure_safe_relative_substr(rel) ==
    LET path == PathParts(rel)
    IN  [ok |-> ~(is_absolute(path)
                  \/ \E i \in 1..(Len(rel) - 1) : rel[i] = Dot /\ rel[i + 1] = Dot),
         path |-> path]

\* ensure_safe_relative: ok = FALSE stands for the ValueError
ensure_safe_relative(rel) ==
    LET path == PathParts(rel)
    IN  [ok |-> ~(is_absolute(path) \/ DotDot \in Range(path)), path |-> path]

\* Path.resolve() without symbolic links: `..` steps to the parent (the root
\* is its own parent); the result is a location, a sequence of segments
RECURSIVE Normalize(_, _)
Normalize(done, todo) ==
    IF todo = <<>> THEN done
    ELSE IF Head(todo) = DotDot
         THEN Normalize(IF done = <<>> THEN <<>> ELSE SubSeq(done, 1, Len(done) - 1),
                        Tail(todo))
         ELSE Normalize(Append(done, Head(todo)), Tail(todo))

\* (root / path).resolve(): joining an absolute path discards the root operand
Resolve(root, parts) ==
    IF is_absolute(parts) THEN Normalize(<<>>, Tail(parts))
    ELSE Normalize(root, parts)

---------------------------------------------------------------------------
(* The file system *)

Dir == [kind |-> "dir", data |-> <<>>]
File(data) == [kind |-> "file", data |-> data]

Exists(f, p) == p \in DOMAIN f
IsFile(f, p) == p \in DOMAIN f /\ f[p].kind = "file"
IsDir(f, p) == p \in DOMAIN f /\ f[p].kind = "dir"

IsPrefix(p, q) == Len(p) <= Len(q) /\ SubSeq(q, 1, Len(p)) = p
Ancestors(p) == {SubSeq(p, 1, n) : n \in 0..(Len(p) - 1)}
Parent(p) == SubSeq(p, 1, Len(p) - 1)

Put(f, p, node) == [q \in DOMAIN f \cup {p} |-> IF q = p THEN node ELSE f[q]]

\* Path.mkdir(parents=True, exist_ok=True): fails, creating nothing, when the
\* path or one of its ancestors is a file
Mkdirs(f, p) ==
    LET chain == Ancestors(p) \cup {p}
        blocked == \E q \in chain : IsFile(f, q)
    IN  [ok |-> ~blocked,
         fs |-> IF blocked THEN f
                ELSE [q \in DOMAIN f \cup chain |-> IF q \in chain THEN Dir ELSE f[q]]]

Rmtree_keep(f, p) == f

\* shutil.rmtree(p)
Rmtree(f, p) == [q \in {r \in DOMAIN f : ~IsPrefix(p, r)} |-> f[q]]

\* any(p.iterdir())
NonEmptyDir(f, p) == \E q \in DOMAIN f : IsPrefix(p, q) /\ q # p

\* Path.write_bytes(data): fails on a directory and under a missing parent
WriteBytes(f, p, data) ==
    LET bad == IsDir(f, p) \/ ~IsDir(f, Parent(p))
    IN  [ok |-> ~bad, fs |-> IF bad THEN f ELSE Put(f, p, File(data))]

\* shutil.copy2(src, dst): a directory as dst receives the file under its name
Copy2(f, src, dst) ==
    IF ~IsFile(f, src) THEN [ok |-> FALSE, fs |-> f]
    ELSE LET to == IF IsDir(f, dst) THEN Append(dst, src[Len(src)]) ELSE dst
         IN  IF to = src THEN [ok |-> FALSE, fs |-> f]
             ELSE WriteBytes(f, to, f[src].data)

---------------------------------------------------------------------------
(* Content hashing *)

DigestLen == 64
HexDigits == <<"0", "1", "2", "3", "4", "5", "6", "7",
               "8", "9", "a", "b", "c", "d", "e", "f">>

\* a file's bytes read as a number, so that different contents of the model
\* get different numbers
RECURSIVE Weigh(_)
Weigh(data) ==
    IF data = <<>> THEN 0 ELSE Weigh(SubSeq(data, 1, Len(data) - 1)) * 3 + data[Len(data)]

\* sha256_file: hexdigest() of the content, 64 lowercase hexadecimal digits;
\* SHA-256 is taken to be free of collisions on the contents of the model
Digest(data) == [i \in 1..DigestLen |-> HexDigits[((Weigh(data) + i) % 16) + 1]]
sha256_file(f, p) == Digest(f[p].data)

\* path.stat().st_size
st_size(f, p) == Len(f[p].data)

---------------------------------------------------------------------------
(* Manifest collector *)

Wild == "*"

\* rank of a token in string comparison ("." < "/" < letters, as in ASCII)
TokenRank(t) ==
    CASE t = "." -> 0
      [] t = "/" -> 1
      [] t = "a" -> 2
      [] t = "b" -> 3
      [] t = "c" -> 4
      [] t = "out" -> 5
      [] t = "payload" -> 6
      [] OTHER -> 7

\* s < t for strings
RECURSIVE StrLess(_, _)
StrLess(s, t) ==
    IF t = <<>> THEN FALSE
    ELSE IF s = <<>> THEN TRUE
    ELSE IF Head(s) = Head(t) THEN StrLess(Tail(s), Tail(t))
    ELSE TokenRank(Head(s)) < TokenRank(Head(t))

\* fnmatch-style matching of a pattern against a string; `cross` tells whether
\* the wildcard may match separators (fnmatch.fnmatch) or not (Path.glob,
\* which matches segment by segment)
RECURSIVE WildMatch(_, _, _)
WildMatch(pat, s, cross) ==
    IF pat = <<>> THEN s = <<>>
    ELSE IF Head(pat) = Wild
         THEN \/ WildMatch(Tail(pat), s, cross)
              \/ /\ s # <<>>
                 /\ cross \/ Head(s) # Sep
                 /\ WildMatch(pat, Tail(s), cross)
         ELSE s # <<>> /\ Head(s) = Head(pat) /\ WildMatch(Tail(pat), Tail(s), cross)

\* repo_relative: the POSIX string of a location relative to the repository
\* root; ok = FALSE stands for the ValueError of Path.relative_to
repo_relative(p, repo_root) ==
    IF IsPrefix(repo_root, p)
    THEN [ok |-> TRUE, rel |-> JoinParts(SubSeq(p, Len(repo_root) + 1, Len(p)))]
    ELSE [ok |-> FALSE, rel |-> <<>>]

matches_any_never(path, patterns) == FALSE

\* _matches_any: any(fnmatch.fnmatch(path, pattern) for pattern in patterns)
matches_any(path, patterns) ==
    \E i \in 1..Len(patterns) : WildMatch(patterns[i], path, TRUE)

\* repo_root.glob(pattern): the existing locations below the root whose
\* relative path matches the pattern segment by segment
Glob(f, repo_root, pattern) ==
    {p \in DOMAIN f : /\ IsPrefix(repo_root, p) /\ p # repo_root
                      /\ WildMatch(JoinParts(PathParts(pattern)),
                                   repo_relative(p, repo_root).rel, FALSE)}

\* sorted(paths, key=repo_relative)
RECURSIVE SortByRel(_, _)
SortByRel(paths, repo_root) ==
    IF paths = {} THEN <<>>
    ELSE LET least == CHOOSE p \in paths : \A q \in paths \ {p} :
                          StrLess(repo_relative(p, repo_root).rel,
                                  repo_relative(q, repo_root).rel)
         IN  <<least>> \o SortByRel(paths \ {least}, repo_root)

collect_manifest_files_lenient(f, repo_root, required_files, optional_globs, exclude_globs) ==
    [error |-> "none",
     files |-> SortByRel({p \in {Resolve(repo_root, PathParts(required_files[i]))
                                    : i \in 1..Len(required_files)} :
                             IsFile(f, p) /\ IsPrefix(repo_root, p)}, repo_root)]

\* collect_manifest_files: error "missing" is the FileNotFoundError for a
\* required file, "outside" the ValueError of repo_relative
collect_manifest_files(f, repo_root, required_files, optional_globs, exclude_globs) ==
    LET candidate(i) == Resolve(repo_root, PathParts(required_files[i]))
        missing(i) == ~IsFile(f, candidate(i))
        outside(i) == ~repo_relative(candidate(i), repo_root).ok
        failing == {i \in 1..Len(required_files) : missing(i) \/ outside(i)}
        first == CHOOSE i \in failing : \A j \in failing : i <= j
        required == {candidate(i) : i \in 1..Len(required_files)}
        optional == UNION {{p \in Glob(f, repo_root, optional_globs[i]) : IsFile(f, p)}
                              : i \in 1..Len(optional_globs)}
        selected == required \cup optional
        filtered == {p \in selected :
                        ~matches_any(repo_relative(p, repo_root).rel, exclude_globs)}
    IN  IF failing # {}
        THEN [error |-> IF missing(first) THEN "missing" ELSE "outside", files |-> <<>>]
        ELSE [error |-> "none", files |-> SortByRel(filtered, repo_root)]

\* collect_file_entries
collect_file_entries(f, files, repo_root) ==
    [i \in 1..Len(files) |->
        [path |-> repo_relative(files[i], repo_root).rel,
         sha256 |-> sha256_file(f, files[i]),
         size_bytes |-> st_size(f, files[i])]]

---------------------------------------------------------------------------
(* Schema validator: package manifest *)

Space == " "

\* str.strip()
RECURSIVE LStrip(_)
LStrip(s) == IF s # <<>> /\ Head(s) = Space THEN LStrip(Tail(s)) ELSE s
RECURSIVE RStrip(_)
RStrip(s) ==
    IF s # <<>> /\ s[Len(s)] = Space THEN RStrip(SubSeq(s, 1, Len(s) - 1)) ELSE s
Strip(s) == LStrip(RStrip(s))

\* str.lower() on the tokens of a digest
Lower(t) ==
    CASE t = "A" -> "a"
      [] t = "B" -> "b"
      [] t = "C" -> "c"
      [] t = "D" -> "d"
      [] t = "E" -> "e"
      [] t = "F" -> "f"
      [] t = "N" -> "n"
      [] OTHER -> t

\* _expect_non_empty_str on a string value: TRUE when it raises
EmptyStr(s) == Strip(s) = <<>>

\* the checks of one entry, in the order of the code; "none" when it passes
EntryError(entry) ==
    LET rel == Strip(entry.path)
        digest == Strip(entry.sha256)
    IN  IF EmptyStr(entry.path) THEN "path"
        ELSE IF ~ensure_safe_relative(rel).ok THEN "path_unsafe"
        ELSE IF EmptyStr(entry.sha256) THEN "sha256"
        ELSE IF \/ Len(digest) # DigestLen
                \/ \E i \in 1..Len(digest) : Lower(digest[i]) \notin Range(HexDigits)
             THEN "sha256_format"
        ELSE IF entry.size_bytes < 0 THEN "size_bytes"
        ELSE "none"

CountMismatch_never(m) == FALSE

\* expected_entry_count != len(entries)
CountMismatch(m) == m.entry_count # Len(m.entries)

\* validate_package_manifest: the name of the first failing check, "none" when
\* the manifest is accepted
validate_package_manifest(m) ==
    LET bad == {i \in 1..Len(m.entries) : EntryError(m.entries[i]) # "none"}
        first == CHOOSE i \in bad : \A j \in bad : i <= j
    IN  IF m.package_version < 1 THEN "package_version"
        ELSE IF m.manifest_version < 1 THEN "manifest_version"
        ELSE IF EmptyStr(m.package_name) THEN "package_name"
        ELSE IF EmptyStr(m.created_at) THEN "created_at"
        ELSE IF EmptyStr(m.source_repo) THEN "source_repo"
        ELSE IF m.entry_count < 0 THEN "entry_count"
        ELSE IF CountMismatch(m) THEN "entry_count_mismatch"
        ELSE IF bad # {} THEN EntryError(m.entries[first])
        ELSE "none"

NoManifest ==
    [exists |-> FALSE, package_version |-> 0, manifest_version |-> 0,
     package_name |-> <<>>, created_at |-> <<>>, source_repo |-> <<>>,
     source_commit |-> <<>>, dry_run_preview |-> FALSE, entry_count |-> 0,
     entries |-> <<>>]

---------------------------------------------------------------------------
(* Schema validator: migration manifest *)

StripAll(list) == [i \in 1..Len(list) |-> Strip(list[i])]
HasDuplicates(list) == \E i, j \in 1..Len(list) : i < j /\ list[i] = list[j]
HasEmptyItem(list) == \E i \in 1..Len(list) : EmptyStr(list[i])

\* _validate_glob_patterns: TRUE when some pattern is rejected
BadGlob(patterns) ==
    \E i \in 1..Len(patterns) :
        \/ Head(Strip(patterns[i])) = Sep
        \/ DotDot \in Range(SplitSep(Strip(patterns[i])))

\* validate_state_migration_manifest: TRUE when the manifest is accepted
validate_state_migration_manifest(m) ==
    /\ m.version >= 1
    /\ m.named /\ ~EmptyStr(m.package_name)
    /\ ~HasEmptyItem(m.required_files)
    /\ m.required_files # <<>>
    /\ ~HasDuplicates(StripAll(m.required_files))
    /\ \A i \in 1..Len(m.required_files) :
           ensure_safe_relative(Strip(m.required_files[i])).ok
    /\ ~HasEmptyItem(m.optional_globs)
    /\ ~HasDuplicates(StripAll(m.optional_globs))
    /\ ~BadGlob(m.optional_globs)
    /\ ~HasEmptyItem(m.exclude_globs)
    /\ ~HasDuplicates(StripAll(m.exclude_globs))
    /\ ~BadGlob(m.exclude_globs)

---------------------------------------------------------------------------
(* Package importer *)

Payload == <<"payload">>

\* resolve_safe_child(root, rel): the path guard composed with resolution
\* under the root; ok = FALSE stands for the ValueError
resolve_safe_child(root, rel) ==
    Bind(ensure_safe_relative(rel), LAMBDA safe :
        [ok |-> safe.ok, loc |-> Resolve(root, safe.path)])

EmptyPlan ==
    [error |-> FALSE, planned_writes |-> <<>>, conflicts |-> <<>>,
     missing_payload |-> <<>>, integrity_errors |-> <<>>, touched |-> {}]

IsConflict_files(f, dst, allow_overwrite) == IsFile(f, dst) /\ ~allow_overwrite

\* dst.exists() and not args.allow_overwrite
IsConflict(f, dst, allow_overwrite) == Exists(f, dst) /\ ~allow_overwrite

IntegrityIssues_size_only(f, src, entry) ==
    IF st_size(f, src) # entry.size_bytes
    THEN <<[path |-> entry.path, issue |-> "size"]>> ELSE <<>>

\* the size and checksum comparison of one payload file
IntegrityIssues(f, src, entry) ==
    (IF st_size(f, src) # entry.size_bytes
     THEN <<[path |-> entry.path, issue |-> "size"]>> ELSE <<>>)
    \o (IF sha256_file(f, src) # entry.sha256
        THEN <<[path |-> entry.path, issue |-> "checksum"]>> ELSE <<>>)

\* the planning loop over the entries from entry i on
RECURSIVE PlanLoop(_, _, _, _, _, _, _)
PlanLoop(f, entries, i, payload_root, target_root, allow_overwrite, acc) ==
    IF i > Len(entries) THEN acc
    ELSE
    Bind(entries[i].path, LAMBDA rel :
    Bind(resolve_safe_child(payload_root, rel), LAMBDA src :
    Bind(resolve_safe_child(target_root, rel), LAMBDA dst :
    Bind([acc EXCEPT
             !.conflicts = IF IsConflict(f, dst.loc, allow_overwrite)
                           THEN Append(@, rel) ELSE @,
             !.touched = @ \cup {src.loc, dst.loc},
             !.planned_writes = Append(@, <<src.loc, dst.loc>>)], LAMBDA seen :
        IF ~src.ok \/ ~dst.ok THEN [acc EXCEPT !.error = TRUE]
        ELSE IF ~IsFile(f, src.loc)
        THEN PlanLoop(f, entries, i + 1, payload_root, target_root, allow_overwrite,
                      [seen EXCEPT !.missing_payload = Append(@, rel)])
        ELSE PlanLoop(f, entries, i + 1, payload_root, target_root, allow_overwrite,
                      [seen EXCEPT !.integrity_errors =
                                       @ \o IntegrityIssues(f, src.loc, entries[i])])))))

\* the write loop from planned write i on; exit 0 when every write was done,
\* 2 for the FileNotFoundError of a payload that cannot be read, 1 for any
\* other OSError of mkdir or write_bytes (not caught: traceback)
RECURSIVE WriteLoop(_, _, _)
WriteLoop(f, planned, i) ==
    IF i > Len(planned) THEN [exit |-> 0, fs |-> f]
    ELSE
    Bind(planned[i][1], LAMBDA src :
    Bind(planned[i][2], LAMBDA dst :
    Bind(Mkdirs(f, Parent(dst)), LAMBDA made :
        IF ~made.ok THEN [exit |-> 1, fs |-> made.fs]
        ELSE IF ~IsFile(made.fs, src) THEN [exit |-> 2, fs |-> made.fs]
        ELSE Bind(WriteBytes(made.fs, dst, made.fs[src].data), LAMBDA wrote :
                 IF ~wrote.ok THEN [exit |-> 1, fs |-> wrote.fs]
                 ELSE WriteLoop(wrote.fs, planned, i + 1)))))

BlockedByConflicts_always(plan, dry_run) == plan.conflicts # <<>>

\* conflicts and not args.dry_run
BlockedByConflicts(plan, dry_run) == plan.conflicts # <<>> /\ ~dry_run

\* missing_payload and not args.dry_run and not dry_run_preview
BlockedByMissing(plan, dry_run, dry_run_preview) ==
    plan.missing_payload # <<>> /\ ~dry_run /\ ~dry_run_preview

\* integrity_errors and not args.dry_run
BlockedByIntegrity(plan, dry_run) == plan.integrity_errors # <<>> /\ ~dry_run

RefusesPreview_never(m) == FALSE

\* the refusal of a real run from a dry-run preview package
RefusesPreview(m) == m.dry_run_preview

ImportResult(f, status, outcome, plan, reported) ==
    [fs |-> f, exit |-> status, outcome |-> outcome, plan |-> plan,
     reported |-> reported]

NothingReported == [conflicts |-> <<>>, missing_payload |-> <<>>, integrity_errors |-> <<>>]

\* main() of state_migration_import.py; exit is the process exit status
ImportMain(f, m, pkg_root, target_root, dry_run, allow_overwrite) ==
    IF ~m.exists THEN ImportResult(f, 2, "no_manifest", EmptyPlan, NothingReported)
    ELSE IF validate_package_manifest(m) # "none"
    THEN ImportResult(f, 2, "invalid", EmptyPlan, NothingReported)
    ELSE
    Bind(pkg_root \o <<Payload>>, LAMBDA payload_root :
    Bind(PlanLoop(f, m.entries, 1, payload_root, target_root,
                  allow_overwrite, EmptyPlan), LAMBDA plan :
        IF plan.error THEN ImportResult(f, 2, "unsafe", plan, NothingReported)
        ELSE IF BlockedByConflicts(plan, dry_run)
        THEN ImportResult(f, 1, "conflicts", plan,
                          [NothingReported EXCEPT !.conflicts = plan.conflicts])
        ELSE IF BlockedByMissing(plan, dry_run, m.dry_run_preview)
        THEN ImportResult(f, 1, "missing_payload", plan,
                          [NothingReported EXCEPT !.missing_payload = plan.missing_payload])
        ELSE IF BlockedByIntegrity(plan, dry_run)
        THEN ImportResult(f, 1, "integrity", plan,
                          [NothingReported EXCEPT !.integrity_errors = plan.integrity_errors])
        ELSE IF dry_run
        THEN ImportResult(f, 0, "dry_run", plan,
                          [NothingReported EXCEPT !.integrity_errors = plan.integrity_errors])
        ELSE IF RefusesPreview(m)
        THEN ImportResult(f, 2, "preview", plan, NothingReported)
        ELSE Bind(WriteLoop(f, plan.planned_writes, 1), LAMBDA written :
                 IF written.exit # 0
                 THEN ImportResult(written.fs, written.exit, "write_failed", plan,
                                   NothingReported)
                 ELSE ImportResult(written.fs, 0, "imported", plan, NothingReported))))

---------------------------------------------------------------------------
(* Package exporter *)

DefaultPackageName == <<"graphiti-openclaw-state-migration">>

\* _validate_manifest: the package name the export uses (the default when the
\* manifest has none); ok = FALSE stands for the ValueError
validate_manifest(m) ==
    LET package_name == IF m.named THEN m.package_name ELSE DefaultPackageName
    IN  [ok |-> Strip(package_name) # <<>>, package_name |-> Strip(package_name)]

\* the payload copy loop from entry i on; exit as for the process: 2 for the
\* FileNotFoundError of a missing source, 1 for any other OSError
RECURSIVE CopyLoop(_, _, _, _, _)
CopyLoop(f, entries, i, repo_root, payload_root) ==
    IF i > Len(entries) THEN [exit |-> 0, fs |-> f]
    ELSE
    Bind(PathParts(entries[i].path), LAMBDA rel :
    Bind(Resolve(repo_root, rel), LAMBDA src :
    Bind(Resolve(payload_root, rel), LAMBDA dst :
    Bind(Mkdirs(f, Parent(dst)), LAMBDA made :
        IF ~made.ok THEN [exit |-> 1, fs |-> made.fs]
        ELSE IF ~IsFile(made.fs, src) THEN [exit |-> 2, fs |-> made.fs]
        ELSE Bind(Copy2(made.fs, src, dst), LAMBDA copied :
                 IF ~copied.ok THEN [exit |-> 1, fs |-> copied.fs]
                 ELSE CopyLoop(copied.fs, entries, i + 1, repo_root, payload_root))))))

CopiesPayload_always(dry_run) == TRUE

\* if not args.dry_run: the payload copy loop runs
CopiesPayload(dry_run) == ~dry_run

NoStop == [stops |-> FALSE, after |-> 0]
StopAfter(copies) == [stops |-> TRUE, after |-> copies]

ManifestAtStop_unwritten(package_manifest, pm) == NoManifest

\* dump_json(package_root / 'package_manifest.json', ...) comes before the
\* payload loop: the manifest file a run holds when the loop ends early
ManifestAtStop(package_manifest, pm) == package_manifest

ExportResult(f, pm, status, outcome, entries) ==
    [fs |-> f, manifest |-> pm, exit |-> status, outcome |-> outcome, entries |-> entries]

\* main() of state_migration_export.py.  git tells what the two git calls do:
\* "ok", "no_repo" (rev-parse --show-toplevel fails), "no_head" (rev-parse HEAD
\* fails); pm is the manifest file the package directory holds before the run
\* stop tells whether the process is stopped (killed, power lost) in the
\* payload loop, and after how many copies
ExportUpTo(f, pm, repo_root, pkg_root, m, dry_run, force, git, stop) ==
    IF git = "no_repo" THEN ExportResult(f, pm, 2, "git", <<>>)
    ELSE
    Bind(validate_manifest(m), LAMBDA checked :
    Bind(collect_manifest_files(f, repo_root, m.required_files,
                                m.optional_globs, m.exclude_globs), LAMBDA collected :
        IF ~checked.ok THEN ExportResult(f, pm, 2, "manifest", <<>>)
        ELSE IF collected.error # "none" THEN ExportResult(f, pm, 2, collected.error, <<>>)
        ELSE IF git = "no_head" THEN ExportResult(f, pm, 2, "git", <<>>)
        ELSE
        Bind(collect_file_entries(f, collected.files, repo_root), LAMBDA entries :
        Bind(Exists(f, pkg_root) /\ (pm.exists \/ NonEmptyDir(f, pkg_root)), LAMBDA occupied :
            IF occupied /\ ~force THEN ExportResult(f, pm, 2, "not_empty", <<>>)
            ELSE
            Bind(Mkdirs(IF occupied THEN Rmtree(f, pkg_root) ELSE f, pkg_root), LAMBDA made :
            Bind([exists |-> TRUE,
                  package_version |-> 1,
                  manifest_version |-> m.version,
                  package_name |-> checked.package_name,
                  created_at |-> <<"now">>,
                  source_repo |-> <<Sep>> \o JoinParts(repo_root),
                  source_commit |-> <<"head">>,
                  dry_run_preview |-> dry_run,
                  entry_count |-> Len(entries),
                  entries |-> entries], LAMBDA package_manifest :
                IF ~made.ok THEN ExportResult(made.fs, NoManifest, 1, "mkdir", <<>>)
                ELSE IF ~CopiesPayload(dry_run)
                THEN ExportResult(made.fs, package_manifest, 0, "preview", entries)
                ELSE
                Bind(stop.stops /\ stop.after < Len(entries), LAMBDA stopped :
                Bind(CopyLoop(made.fs,
                              IF stopped THEN SubSeq(entries, 1, stop.after) ELSE entries,
                              1, repo_root, pkg_root \o <<Payload>>),
                     LAMBDA copied :
                    IF copied.exit # 0
                    THEN ExportResult(copied.fs, ManifestAtStop(package_manifest, pm),
                                      copied.exit, "copy_failed", entries)
                    ELSE IF stopped
                    THEN ExportResult(copied.fs, ManifestAtStop(package_manifest, pm),
                                      130, "stopped", entries)
                    ELSE ExportResult(copied.fs, package_manifest, 0, "exported",
                                      entries)))))))))

\* main() of state_migration_export.py run to its end
ExportMain(f, pm, repo_root, pkg_root, m, dry_run, force, git) ==
    ExportUpTo(f, pm, repo_root, pkg_root, m, dry_run, force, git, NoStop)

---------------------------------------------------------------------------
(* The scenario: one repository, one package directory, one target tree *)

RepoRoot == << <<"repo">> >>
TargetRoot == << <<"tgt">> >>
\* the package directory lies inside the repository tree or outside of it
PackageRoots == { << <<"repo">>, <<"out">> >>, << <<"pkg">> >> }

FileA == <<"a">>
FileBC == <<"b", Sep, "c">>
GlobOldPayload == <<"out", Sep, "payload", Sep, Wild>>

MigrationManifest(required, optional, exclude) ==
    [version |-> 1, named |-> TRUE, package_name |-> <<"state">>,
     required_files |-> required, optional_globs |-> optional, exclude_globs |-> exclude]

\* the migration manifests given to export
MigrationManifests ==
    { MigrationManifest(<<FileA, FileBC>>, <<>>, <<>>),
      MigrationManifest(<<FileA>>, <<GlobOldPayload>>, <<>>),
      MigrationManifest(<<>>, <<GlobOldPayload>>, <<>>) }

GitStates == {"ok", "no_head", "no_repo"}

Idle == [op |-> "none"]
NoExport == [valid |-> FALSE]
NoGuard == [called |-> FALSE]
NoExtension == [present |-> FALSE]
NotMigrated == [called |-> FALSE]
NoConfig == [present |-> FALSE]
NoBatch == [op |-> "none"]

InitTree ==
    (<<>> :> Dir)
    @@ (RepoRoot :> Dir)
    @@ (RepoRoot \o <<FileA>> :> File(<<1>>))
    @@ (RepoRoot \o << <<"b">> >> :> Dir)
    @@ (RepoRoot \o << <<"b">>, <<"c">> >> :> File(<<1, 2>>))
    @@ (TargetRoot :> Dir)

Init ==
    /\ fs = InitTree
    /\ package_root \in PackageRoots
    /\ pkg_manifest = NoManifest
    /\ last = Idle
    /\ exported = NoExport
    /\ runs = 0
    /\ edits = 0
    /\ rel_path = <<>>
    /\ guard = NoGuard
    /\ ext_manifest = NoExtension
    /\ migrated = NotMigrated
    /\ config = NoConfig
    /\ extensions = <<>>
    /\ batch = NoBatch

\* one run of the export command
Export(m, dry_run, force, git) ==
    \E r \in {ExportMain(fs, pkg_manifest, RepoRoot, package_root, m, dry_run, force, git)} :
        /\ runs < MaxRuns
        /\ runs' = runs + 1
        /\ fs' = r.fs
        /\ pkg_manifest' = r.manifest
        /\ last' = [op |-> "export", dry_run |-> dry_run, force |-> force, git |-> git,
                    manifest |-> m, exit |-> r.exit, outcome |-> r.outcome,
                    entries |-> r.entries, pre_fs |-> fs]
        /\ exported' = IF r.exit = 0
                       THEN [valid |-> TRUE, dry_run |-> dry_run, manifest |-> m, tree |-> fs]
                       ELSE IF r.manifest # pkg_manifest \/ r.fs # fs THEN NoExport
                       ELSE exported
        /\ UNCHANGED <<package_root, edits, rel_path, guard, ext_manifest, migrated,
                 config, extensions, batch>>

\* one run of the import command
ImportRun(dry_run, allow_overwrite) ==
    \E r \in {ImportMain(fs, pkg_manifest, package_root, TargetRoot, dry_run, allow_overwrite)} :
        /\ runs' = runs + 1
        /\ fs' = r.fs
        /\ last' = [op |-> "import", dry_run |-> dry_run, allow_overwrite |-> allow_overwrite,
                    exit |-> r.exit, outcome |-> r.outcome, plan |-> r.plan,
                    reported |-> r.reported, pre_fs |-> fs]
        /\ UNCHANGED <<package_root, pkg_manifest, exported, edits, rel_path, guard, ext_manifest, migrated,
                 config, extensions, batch>>

\* import as a step of the pipeline
Import(dry_run, allow_overwrite) ==
    runs < MaxRuns /\ ImportRun(dry_run, allow_overwrite)

\* a change made to the trees between two command runs
Outside(f) ==
    /\ edits' = edits + 1
    /\ fs' = f
    /\ last' = Idle
    /\ UNCHANGED <<package_root, runs, rel_path, guard, ext_manifest, migrated,
                 config, extensions, batch>>

\* somebody edits a source file between two runs
EditSource ==
    /\ edits < MaxEdits
    /\ fs[RepoRoot \o <<FileA>>] = File(<<1>>)
    /\ Outside(Put(fs, RepoRoot \o <<FileA>>, File(<<2>>)))
    /\ UNCHANGED <<pkg_manifest, exported>>

Next ==
    \/ \E m \in MigrationManifests, dry_run \in BOOLEAN, force \in BOOLEAN, git \in GitStates :
           Export(m, dry_run, force, git)
    \/ \E dry_run \in BOOLEAN, allow_overwrite \in BOOLEAN : Import(dry_run, allow_overwrite)
    \/ EditSource

\* export, edit and import runs in any order
Spec == Init /\ [][Next]_vars

---------------------------------------------------------------------------
(* Export of every manifest the exporter accepts, to its end or stopped in *)
(* the payload loop, and import of what it left                            *)

MaxFreshRuns == 2
MaxCopies == 1

ExporterManifest(version, named, required) ==
    [version |-> version, named |-> named, package_name |-> <<"state">>,
     required_files |-> required, optional_globs |-> <<>>, exclude_globs |-> <<>>]

\* migration manifests that pass _validate_manifest of the exporter: version 1
\* with and without a package name and with zero to two required files, and
\* the versions below 1
ExporterManifests ==
    {ExporterManifest(1, named, required) :
        named \in BOOLEAN, required \in {<<>>, <<FileA>>, <<FileA, FileBC>>}}
    \cup {ExporterManifest(version, TRUE, <<FileA>>) : version \in {0 - 1, 0}}

ExportFresh(m, dry_run, force) ==
    runs < MaxFreshRuns /\ Export(m, dry_run, force, "ok")

\* an export run without --dry-run that is stopped after the manifest write
\* and some payload copies, before the last one
ExportStopped(m, force, copies) ==
    /\ runs < MaxFreshRuns
    /\ \E r \in {ExportUpTo(fs, pkg_manifest, RepoRoot, package_root, m, FALSE, force, "ok",
                            StopAfter(copies))} :
        /\ r.outcome = "stopped"
        /\ runs' = runs + 1
        /\ fs' = r.fs
        /\ pkg_manifest' = r.manifest
        /\ last' = [op |-> "export", dry_run |-> FALSE, force |-> force, git |-> "ok",
                    manifest |-> m, exit |-> r.exit, outcome |-> r.outcome,
                    entries |-> r.entries, pre_fs |-> fs]
        /\ exported' = [valid |-> FALSE, stopped |-> TRUE, after |-> copies]
        /\ UNCHANGED <<package_root, edits, rel_path, guard, ext_manifest, migrated,
                       config, extensions, batch>>

ImportFresh(dry_run, allow_overwrite) ==
    runs < MaxFreshRuns /\ ImportRun(dry_run, allow_overwrite)

NextFresh ==
    \/ \E m \in ExporterManifests, dry_run \in BOOLEAN, force \in BOOLEAN :
           ExportFresh(m, dry_run, force)
    \/ \E m \in ExporterManifests, force \in BOOLEAN, copies \in 0..MaxCopies :
           ExportStopped(m, force, copies)
    \/ \E dry_run \in BOOLEAN, allow_overwrite \in BOOLEAN : ImportFresh(dry_run, allow_overwrite)

SpecFresh == Init /\ [][NextFresh]_vars

---------------------------------------------------------------------------
(* Import of a package that may have been damaged, into a target tree that   *)
(* may already hold something                                                *)

\* the package directory right after an export of the initial tree
InitImport ==
    /\ package_root \in PackageRoots
    /\ \E m \in MigrationManifests, dry_run \in BOOLEAN :
         \E r \in {ExportMain(InitTree, NoManifest, RepoRoot, package_root,
                              m, dry_run, FALSE, "ok")} :
             fs = r.fs /\ pkg_manifest = r.manifest
    /\ last = Idle
    /\ exported = NoExport
    /\ runs = 0
    /\ edits = 0
    /\ rel_path = <<>>
    /\ guard = NoGuard
    /\ ext_manifest = NoExtension
    /\ migrated = NotMigrated
    /\ config = NoConfig
    /\ extensions = <<>>
    /\ batch = NoBatch

Remove(f, p) == [q \in DOMAIN f \ {p} |-> f[q]]

PayloadFiles ==
    {p \in DOMAIN fs : IsPrefix(package_root \o <<Payload>>, p) /\ IsFile(fs, p)}

\* a payload file of the package is lost
LosePayload ==
    /\ edits < MaxDamage
    /\ \E p \in PayloadFiles : Outside(Remove(fs, p))
    /\ UNCHANGED <<pkg_manifest, exported>>

\* a payload file of the package is replaced by other bytes
DamagePayload ==
    /\ edits < MaxDamage
    /\ \E p \in PayloadFiles : \E data \in {<<2>>, <<1, 2>>} :
           fs[p].data # data /\ Outside(Put(fs, p, File(data)))
    /\ UNCHANGED <<pkg_manifest, exported>>

UnsafePaths == { <<Dot, Dot, Sep, "a">>, <<Sep, "a">> }

\* package_manifest.json is edited by hand, or written by somebody hostile
TamperManifest ==
    /\ edits < MaxDamage
    /\ pkg_manifest.exists
    /\ \E m \in
           { [pkg_manifest EXCEPT !.entry_count = @ + 1],
             [pkg_manifest EXCEPT !.entry_count = @ - 1],
             [pkg_manifest EXCEPT !.dry_run_preview = ~@] }
           \cup { [pkg_manifest EXCEPT !.entries[1].path = p] :
                     p \in IF pkg_manifest.entries = <<>> THEN {} ELSE UnsafePaths } :
           pkg_manifest' = m
    /\ Outside(fs)
    /\ UNCHANGED exported

\* the target tree already holds a file or a directory
PrepareTarget ==
    /\ edits < MaxDamage
    /\ \E p \in { <<FileA>>, << <<"b">> >>, << <<"b">>, <<"c">> >> } :
         \E node \in {File(<<2>>), Dir} :
           \E made \in {Mkdirs(fs, Parent(TargetRoot \o p))} :
             /\ ~Exists(fs, TargetRoot \o p)
             /\ made.ok
             /\ Outside(Put(made.fs, TargetRoot \o p, node))
    /\ UNCHANGED <<pkg_manifest, exported>>

ImportPackage(dry_run, allow_overwrite) ==
    runs < MaxImports /\ ImportRun(dry_run, allow_overwrite)

NextImport ==
    \/ \E dry_run \in BOOLEAN, allow_overwrite \in BOOLEAN :
           ImportPackage(dry_run, allow_overwrite)
    \/ LosePayload
    \/ DamagePayload
    \/ TamperManifest
    \/ PrepareTarget

SpecImport == InitImport /\ [][NextImport]_vars

---------------------------------------------------------------------------
(* The path guard on every short string *)

PathTokens == {Sep, Dot, "a"}
Strings == UNION {[1..n -> PathTokens] : n \in 0..MaxPathLen}

InitPath ==
    /\ fs = InitTree
    /\ package_root = << <<"pkg">> >>
    /\ pkg_manifest = NoManifest
    /\ last = Idle
    /\ exported = NoExport
    /\ runs = 0
    /\ edits = 0
    /\ rel_path \in Strings
    /\ guard = NoGuard
    /\ ext_manifest = NoExtension
    /\ migrated = NotMigrated
    /\ config = NoConfig
    /\ extensions = <<>>
    /\ batch = NoBatch

\* one call of ensure_safe_relative
Guard ==
    /\ ~guard.called
    /\ guard' = [called |-> TRUE, result |-> ensure_safe_relative(rel_path)]
    /\ UNCHANGED <<fs, package_root, pkg_manifest, last, exported, runs, edits, rel_path,
                 ext_manifest, migrated,
                 config, extensions, batch>>

NextPath == Guard

SpecPath == InitPath /\ [][NextPath]_vars

---------------------------------------------------------------------------
(* Export of any migration manifest into a destination that may already     *)
(* hold something                                                            *)

MaxExports == 1
MaxSeeds == 1

FileC == <<"c">>
FileD == <<"d">>

\* the repository of the export scenario: the initial tree and one more file
ExportTree == InitTree @@ (RepoRoot \o <<FileC>> :> File(<<2>>))

\* the migration manifests given to export in this scenario: the ones of the
\* pipeline, a required path with a `..` segment, an absolute required path,
\* a missing required file, and one whose rules overlap (a file required
\* twice, an optional glob, an exclude glob that hits a required file)
ExportManifests ==
    MigrationManifests \cup
    { MigrationManifest(<< <<"b", Sep, Dot, Dot, Sep, "a">> >>, <<>>, <<>>),
      MigrationManifest(<< <<Sep, "repo", Sep, "a">> >>, <<>>, <<>>),
      MigrationManifest(<<FileA, FileD>>, <<>>, <<>>),
      MigrationManifest(<<FileA, <<Dot, Sep, "a">>, FileC>>,
                        << <<"b", Sep, Wild>> >>, <<FileC>>) }

InitExport ==
    /\ fs = ExportTree
    /\ package_root \in PackageRoots
    /\ pkg_manifest = NoManifest
    /\ last = Idle
    /\ exported = NoExport
    /\ runs = 0
    /\ edits = 0
    /\ rel_path = <<>>
    /\ guard = NoGuard
    /\ ext_manifest = NoExtension
    /\ migrated = NotMigrated
    /\ config = NoConfig
    /\ extensions = <<>>
    /\ batch = NoBatch

\* the destination already holds a package of an earlier export
SeedPackage ==
    /\ edits < MaxSeeds
    /\ ~pkg_manifest.exists
    /\ \E m \in MigrationManifests :
         \E r \in {ExportMain(fs, pkg_manifest, RepoRoot, package_root,
                              m, FALSE, FALSE, "ok")} :
             /\ r.exit = 0
             /\ pkg_manifest' = r.manifest
             /\ Outside(r.fs)
    /\ UNCHANGED exported

\* the destination already holds a file that no package knows, or is an
\* empty directory
SeedStale ==
    /\ edits < MaxSeeds
    /\ \E made \in {Mkdirs(fs, package_root)} :
         /\ made.ok
         /\ \/ ~Exists(fs, package_root) /\ Outside(made.fs)
            \/ /\ ~Exists(fs, package_root \o << <<"stale">> >>)
               /\ Outside(Put(made.fs, package_root \o << <<"stale">> >>, File(<<1>>)))
    /\ UNCHANGED <<pkg_manifest, exported>>

ExportPackage(m, dry_run, force, git) ==
    runs < MaxExports /\ Export(m, dry_run, force, git)

NextExport ==
    \/ \E m \in ExportManifests, dry_run \in BOOLEAN, force \in BOOLEAN, git \in GitStates :
           ExportPackage(m, dry_run, force, git)
    \/ SeedPackage
    \/ SeedStale

SpecExport == InitExport /\ [][NextExport]_vars

---------------------------------------------------------------------------
(* Extension manifests and the command-namespace migration                  *)
(* (scripts/delta_contract_migrate.py).  The strings here are sequences of  *)
(* characters; "command" stands for the default suffix.                     *)

MaxCommands == 4
MaxMigrations == 2

Hyphen == "-"
Digits == <<"0", "1", "2", "3", "4", "5", "6", "7", "8", "9">>
Alnum == {"a", "n", "p", "A", "N", "command"} \cup Range(Digits)

\* normalize_slug of delta_contracts_lib.common as the specification gives it:
\* lower-cased, every run of non-alphanumeric characters collapsed to one
\* separator, no separator at either end
RECURSIVE SlugFrom(_, _, _)
SlugFrom(s, acc, gap) ==
    IF s = <<>> THEN acc
    ELSE IF Head(s) \in Alnum
         THEN SlugFrom(Tail(s),
                       acc \o (IF gap /\ acc # <<>> THEN <<Hyphen>> ELSE <<>>)
                           \o <<Lower(Head(s))>>,
                       FALSE)
         ELSE SlugFrom(Tail(s), acc, TRUE)

normalize_slug(s) == SlugFrom(s, <<>>, FALSE)

\* candidate_suffix if counter == 1 else f'{candidate_suffix}-{counter}'
Suffixed(candidate_suffix, counter) ==
    IF counter = 1 THEN candidate_suffix
    ELSE candidate_suffix \o <<Hyphen, Digits[counter + 1]>>

\* the `while True` loop of _stable_command_key from a counter on
RECURSIVE FreeKey(_, _, _, _)
FreeKey(namespace, candidate_suffix, counter, seen) ==
    Bind(namespace \o <<Sep>> \o Suffixed(candidate_suffix, counter), LAMBDA command_key :
        IF command_key \notin seen THEN command_key
        ELSE FreeKey(namespace, candidate_suffix, counter + 1, seen))

stable_command_key_from2(namespace, raw_key, seen) ==
    FreeKey(namespace,
            IF normalize_slug(raw_key) = <<>> THEN <<"command">> ELSE normalize_slug(raw_key),
            2, seen)

stable_command_key_taken(namespace, raw_key, seen) ==
    namespace \o <<Sep>>
        \o (IF normalize_slug(raw_key) = <<>> THEN <<"command">> ELSE normalize_slug(raw_key))

\* _stable_command_key: the key it returns (the caller's seen set gets it)
stable_command_key(namespace, raw_key, seen) ==
    FreeKey(namespace,
            IF normalize_slug(raw_key) = <<>> THEN <<"command">> ELSE normalize_slug(raw_key),
            1, seen)

\* key.split('/', 1)[1] of a key that holds a separator
AfterFirstSep(s) ==
    SubSeq(s, 1 + (CHOOSE i \in 1..Len(s) : s[i] = Sep /\ \A j \in 1..(i - 1) : s[j] # Sep),
           Len(s))

NoContract == [present |-> FALSE, version |-> 0, namespace |-> <<>>]
Contract(version, namespace) == [present |-> TRUE, version |-> version, namespace |-> namespace]

\* validate_extension_manifest: TRUE when the manifest is accepted (a manifest
\* of the model has no description)
validate_extension_manifest(m) ==
    /\ ~EmptyStr(m.name)
    /\ ~EmptyStr(m.version)
    /\ ~HasEmptyItem(m.capabilities)
    /\ m.capabilities # <<>>
    /\ ~HasDuplicates(StripAll(m.capabilities))
    /\ m.entrypoints # <<>>
    /\ \A i \in 1..Len(m.entrypoints) :
           /\ ~EmptyStr(m.entrypoints[i].key)
           /\ ~EmptyStr(m.entrypoints[i].path)
           /\ ensure_safe_relative(Strip(m.entrypoints[i].path)).ok

Revalidated_skipped(result) == TRUE

\* validate_extension_manifest(manifest, context='migrated extension manifest')
Revalidated(result) == validate_extension_manifest(result)

\* contract_valid of _migrate_extension_manifest
contract_valid(contract, namespace) ==
    contract.present /\ contract.version = 1 /\ Strip(contract.namespace) = namespace

\* migrated_commands[command_key] = rel_path on a dict that keeps the order
\* of insertion: a key the dict holds already keeps its place and gets the
\* new path
DictSet(dict, item) ==
    IF \E j \in 1..Len(dict) : dict[j].key = item.key
    THEN [j \in 1..Len(dict) |-> IF dict[j].key = item.key THEN item ELSE dict[j]]
    ELSE Append(dict, item)

\* the loop over commands.items() from command i on; error stands for the
\* ValueError of a path that is not a string
RECURSIVE MigrateLoop(_, _, _, _, _, _)
MigrateLoop(commands, i, namespace, seen_keys, migrated_commands, changed) ==
    IF i > Len(commands)
    THEN [error |-> FALSE, commands |-> migrated_commands, changed |-> changed]
    ELSE IF ~commands[i].is_str
    THEN [error |-> TRUE, commands |-> migrated_commands, changed |-> changed]
    ELSE
    Bind(Strip(commands[i].key), LAMBDA normalized_key :
    Bind(IsPrefix(namespace \o <<Sep>>, normalized_key), LAMBDA namespaced :
    Bind(stable_command_key(namespace,
                            IF namespaced THEN AfterFirstSep(normalized_key)
                            ELSE normalized_key,
                            seen_keys), LAMBDA command_key :
        MigrateLoop(commands, i + 1, namespace, seen_keys \cup {command_key},
                    DictSet(migrated_commands, [commands[i] EXCEPT !.key = command_key]),
                    changed \/ ~namespaced \/ command_key # normalized_key))))

MigrationFailed(manifest) == [ok |-> FALSE, manifest |-> manifest, changed |-> FALSE]

\* _migrate_extension_manifest: ok = FALSE stands for the ValueError
migrate_extension_manifest(manifest) ==
    IF manifest.commands = <<>> THEN [ok |-> TRUE, manifest |-> manifest, changed |-> FALSE]
    ELSE
    Bind(normalize_slug(Strip(manifest.name)), LAMBDA namespace :
        IF namespace = <<>> THEN MigrationFailed(manifest)
        ELSE
        Bind(MigrateLoop(manifest.commands, 1, namespace, {}, <<>>, FALSE), LAMBDA loop :
            IF loop.error THEN MigrationFailed(manifest)
            ELSE
            Bind(loop.changed \/ ~contract_valid(manifest.command_contract, namespace),
                 LAMBDA changed :
            Bind(IF changed
                 THEN [manifest EXCEPT !.command_contract = Contract(1, namespace),
                                       !.commands = loop.commands]
                 ELSE manifest, LAMBDA result :
                IF Revalidated(result)
                THEN [ok |-> TRUE, manifest |-> result, changed |-> changed]
                ELSE MigrationFailed(manifest)))))

---------------------------------------------------------------------------
(* Migration of every small extension manifest, applied again and again *)

ExtensionNames == { <<"n">>, <<Space, "N">>, <<"!">> }

CommandKeys ==
    { <<"a">>, <<"A">>, <<"a", Hyphen, "2">>, <<"A", Hyphen, "2">>,
      <<"n", Sep, "a">>, <<Space, "n", Sep, "a">> }

Contracts == { NoContract, Contract(1, <<"n">>), Contract(1, <<Space, "n">>), Contract(2, <<"n">>) }

Command(key) == [key |-> key, path |-> <<"p", Sep>> \o key, is_str |-> TRUE]

\* commands is a JSON object: the keys are distinct and keep their order
CommandLists ==
    {[i \in 1..Len(keys) |-> Command(keys[i])] :
        keys \in {k \in UNION {[1..n -> CommandKeys] : n \in 0..MaxCommands} :
                     \A i, j \in 1..Len(k) : i # j => k[i] # k[j]}}

ExtensionManifest(name, commands, contract, entrypoints) ==
    [present |-> TRUE, name |-> name, version |-> <<"0", Dot, "1">>,
     capabilities |-> << <<"sync">> >>, entrypoints |-> entrypoints,
     commands |-> commands, command_contract |-> contract]

Doctor == <<[key |-> <<"doctor">>, path |-> <<"scripts", Sep, "tool">>]>>

\* the manifests given to the migration: every name, command list and
\* contract with a good rest, and two manifests the migration cannot take
ExtensionManifests ==
    { ExtensionManifest(name, commands, contract, Doctor) :
          name \in ExtensionNames, commands \in CommandLists, contract \in Contracts }
    \cup { ExtensionManifest(<<"n">>, <<Command(<<"a">>)>>, NoContract, <<>>),
           ExtensionManifest(<<"n">>, << [Command(<<"a">>) EXCEPT !.is_str = FALSE] >>,
                             NoContract, Doctor) }

InitMigrate ==
    /\ fs = InitTree
    /\ package_root = << <<"pkg">> >>
    /\ pkg_manifest = NoManifest
    /\ last = Idle
    /\ exported = NoExport
    /\ runs = 0
    /\ edits = 0
    /\ rel_path = <<>>
    /\ guard = NoGuard
    /\ ext_manifest \in ExtensionManifests
    /\ migrated = NotMigrated
    /\ config = NoConfig
    /\ extensions = <<>>
    /\ batch = NoBatch

\* one application of _migrate_extension_manifest to the manifest; the
\* manifest it returns replaces the old one
Migrate ==
    /\ runs < MaxMigrations
    /\ \E r \in {migrate_extension_manifest(ext_manifest)} :
         /\ migrated' = [called |-> TRUE, ok |-> r.ok, changed |-> r.changed,
                         before |-> ext_manifest, manifest |-> r.manifest,
                         again |-> migrated.called /\ migrated.ok]
         /\ ext_manifest' = IF r.ok THEN r.manifest ELSE ext_manifest
    /\ runs' = runs + 1
    /\ UNCHANGED <<fs, package_root, pkg_manifest, last, exported, edits, rel_path, guard,
                 config, extensions, batch>>

NextMigrate == Migrate

SpecMigrate == InitMigrate /\ [][NextMigrate]_vars

---------------------------------------------------------------------------
(* The migrate command over the directories under extensions/              *)
(* (main of scripts/delta_contract_migrate.py)                             *)

MaxDirs == 3
MaxBatchRuns == 2

\* config/delta_contract_policy.json: valid stands for the verdict of
\* validate_delta_contract_policy, current_version for
\* targets.extension_command_contract.current_version
ContractPolicy(valid, current_version) ==
    [present |-> TRUE, valid |-> valid, current_version |-> current_version]
NoContractPolicy == [present |-> FALSE, valid |-> FALSE, current_version |-> 0]

validate_delta_contract_policy(p) == p.valid

WritesFile_never(write) == FALSE

\* `if args.write:` before manifest_path.write_text
WritesFile(write) == write

\* the for loop of main over the sorted directories from directory i on;
\* error stands for the ValueError that leaves the loop and main
RECURSIVE MigrateDirs(_, _, _, _, _)
MigrateDirs(dirs, i, write, changed_files, inspected) ==
    IF i > Len(dirs)
    THEN [error |-> FALSE, dirs |-> dirs, changed_files |-> changed_files,
          inspected |-> inspected]
    ELSE IF ~dirs[i].present
    THEN MigrateDirs(dirs, i + 1, write, changed_files, inspected)
    ELSE
    Bind(migrate_extension_manifest(dirs[i]), LAMBDA r :
        IF ~r.ok
        THEN [error |-> TRUE, dirs |-> dirs, changed_files |-> changed_files,
              inspected |-> inspected + 1]
        ELSE IF ~r.changed
        THEN MigrateDirs(dirs, i + 1, write, changed_files, inspected + 1)
        ELSE MigrateDirs(IF WritesFile(write) THEN [dirs EXCEPT ![i] = r.manifest] ELSE dirs,
                         i + 1, write, Append(changed_files, i), inspected + 1))

MigrateResult(dirs, status, outcome, changed_files, inspected) ==
    [dirs |-> dirs, exit |-> status, outcome |-> outcome,
     changed_files |-> changed_files, inspected |-> inspected]

\* main of delta_contract_migrate.py with the handler of its exceptions:
\* exit 2 and nothing listed when an exception leaves main
MigrateMain(cfg, dirs, write, repo_ok) ==
    IF ~repo_ok THEN MigrateResult(dirs, 2, "no_repo", <<>>, 0)
    ELSE IF ~cfg.contract_policy.present
    THEN MigrateResult(dirs, 2, "policy_missing", <<>>, 0)
    ELSE IF ~validate_delta_contract_policy(cfg.contract_policy)
    THEN MigrateResult(dirs, 2, "policy_invalid", <<>>, 0)
    ELSE IF cfg.contract_policy.current_version # 1
    THEN MigrateResult(dirs, 2, "unsupported_version", <<>>, 0)
    ELSE IF ~cfg.extensions_dir
    THEN MigrateResult(dirs, 2, "extensions_missing", <<>>, 0)
    ELSE
    Bind(MigrateDirs(dirs, 1, write, <<>>, 0), LAMBDA loop :
        IF loop.error
        THEN MigrateResult(loop.dirs, 2, "manifest_failed", <<>>, 0)
        ELSE MigrateResult(loop.dirs, 0, "listed", loop.changed_files, loop.inspected))

\* the manifests of the extension directories: none, one that needs
\* migration, another one that needs it, one already migrated, one whose
\* name gives no namespace, one whose migrated form breaks the schema, and
\* one without commands
NeedsMigration == ExtensionManifest(<<"n">>, <<Command(<<"a">>)>>, NoContract, Doctor)
NeedsContract ==
    ExtensionManifest(<<"N">>, <<Command(<<"n", Sep, "a">>)>>, Contract(2, <<"n">>), Doctor)
AlreadyMigrated ==
    ExtensionManifest(<<"n">>, <<Command(<<"n", Sep, "a">>)>>, Contract(1, <<"n">>), Doctor)
Unnameable == ExtensionManifest(<<"!">>, <<Command(<<"a">>)>>, NoContract, Doctor)
BreaksSchema == ExtensionManifest(<<"n">>, <<Command(<<"a">>)>>, NoContract, <<>>)
NoCommands == ExtensionManifest(<<"n">>, <<>>, NoContract, Doctor)

DirManifests ==
    {NoExtension, NeedsMigration, NeedsContract, AlreadyMigrated, Unnameable, BreaksSchema,
     NoCommands}

ContractPolicies == {NoContractPolicy, ContractPolicy(FALSE, 1), ContractPolicy(TRUE, 1),
                     ContractPolicy(TRUE, 2)}

MigrateConfig(contract_policy, extensions_dir) ==
    [present |-> TRUE, contract_policy |-> contract_policy, extensions_dir |-> extensions_dir]

InitBatch ==
    /\ fs = InitTree
    /\ package_root = << <<"pkg">> >>
    /\ pkg_manifest = NoManifest
    /\ last = Idle
    /\ exported = NoExport
    /\ runs = 0
    /\ edits = 0
    /\ rel_path = <<>>
    /\ guard = NoGuard
    /\ ext_manifest = NoExtension
    /\ migrated = NotMigrated
    /\ \E contract_policy \in ContractPolicies, extensions_dir \in BOOLEAN :
           /\ config = MigrateConfig(contract_policy, extensions_dir)
           /\ extensions \in (IF extensions_dir
                              THEN UNION {[1..n -> DirManifests] : n \in 0..MaxDirs}
                              ELSE {<<>>})
    /\ batch = NoBatch

\* one run of the migrate command
MigrateRun(write, repo_ok) ==
    /\ runs < MaxBatchRuns
    /\ \E r \in {MigrateMain(config, extensions, write, repo_ok)} :
         /\ extensions' = r.dirs
         /\ batch' = [op |-> "migrate", write |-> write, repo_ok |-> repo_ok,
                      exit |-> r.exit, outcome |-> r.outcome,
                      changed_files |-> r.changed_files, inspected |-> r.inspected,
                      before |-> extensions]
    /\ runs' = runs + 1
    /\ UNCHANGED <<fs, package_root, pkg_manifest, last, exported, edits, rel_path, guard,
                   ext_manifest, migrated, config>>

NextBatch == \E write \in BOOLEAN, repo_ok \in BOOLEAN : MigrateRun(write, repo_ok)

SpecBatch == InitBatch /\ [][NextBatch]_vars

---------------------------------------------------------------------------
(* JSON values and validate_migration_sync_policy (scripts/delta_contracts.py) *)

Null == [type |-> "null"]
Str(s) == [type |-> "str", value |-> s]
Integer(n) == [type |-> "int", value |-> n]
Boolean(b) == [type |-> "bool", value |-> IF b THEN 1 ELSE 0]
Obj(fields) == [type |-> "object", fields |-> fields]
NoFields == [k \in {} |-> Null]

\* dict.get(key)
Get(obj, key) == IF key \in DOMAIN obj.fields THEN obj.fields[key] ELSE Null

\* the first error of a sequence of checks, "none" when every check passes
RECURSIVE FirstError(_)
FirstError(checks) ==
    IF checks = <<>> THEN "none"
    ELSE IF Head(checks) # "none" THEN Head(checks)
    ELSE FirstError(Tail(checks))

expect_dict(value) == IF value.type = "object" THEN "none" ELSE "must be an object"
expect_str(value) == IF value.type = "str" THEN "none" ELSE "must be a string"

expect_non_empty_str(value) ==
    IF value.type # "str" THEN "must be a string"
    ELSE IF Strip(value.value) = <<>> THEN "must be a non-empty string"
    ELSE "none"

expect_bool(value) == IF value.type = "bool" THEN "none" ELSE "must be a boolean"

\* isinstance(value, int) and isinstance(value, (int, float)) hold for a bool
expect_int(value, min_value) ==
    IF value.type \notin {"int", "bool"} THEN "must be an integer"
    ELSE IF value.value < min_value THEN "must be >= min"
    ELSE "none"

expect_number(value, min_value) ==
    IF value.type \notin {"int", "bool"} THEN "must be a number"
    ELSE IF value.value < min_value THEN "must be >= min"
    ELSE "none"

METRIC_KEYS == <<"privacy_risk", "simplicity", "merge_conflict_risk", "auditability">>

FILTERED_HISTORY_FIELDS ==
    [privacy_risk |-> {"base", "block_penalty", "ambiguous_penalty"},
     simplicity |-> {"base", "commit_divisor", "commit_cap", "ambiguous_penalty"},
     merge_conflict_risk |-> {"base", "commit_divisor", "commit_cap", "ambiguous_penalty"},
     auditability |-> {"base", "block_penalty", "ambiguous_penalty"}]

CLEAN_FOUNDATION_FIELDS ==
    [privacy_risk |-> {"base"},
     simplicity |-> {"base", "commit_bonus_divisor", "commit_bonus_cap"},
     merge_conflict_risk |-> {"base"},
     auditability |-> {"base"}]

Required_never(strict) == FALSE

\* `if strict:` on a section that is absent
Required(strict) == strict

\* the origin and upstream blocks
BlockError(policy, block_name, strict) ==
    Bind(Get(policy, block_name), LAMBDA block :
        IF block = Null
        THEN (IF Required(strict) THEN "is required in strict mode" ELSE "none")
        ELSE IF block.type # "object" THEN "must be an object"
        ELSE FirstError(<<
            expect_non_empty_str(Get(block, "remote")),
            expect_non_empty_str(Get(block, "branch")),
            IF block_name = "upstream" /\ "url" \in DOMAIN block.fields
            THEN expect_str(Get(block, "url"))
            ELSE IF block_name = "upstream" /\ Required(strict)
            THEN "url is required in strict mode"
            ELSE "none">>))

SyncButtonPolicyError(policy, strict) ==
    Bind(Get(policy, "sync_button_policy"), LAMBDA sync_policy :
        IF sync_policy = Null
        THEN (IF Required(strict) THEN "is required in strict mode" ELSE "none")
        ELSE IF sync_policy.type # "object" THEN "must be an object"
        ELSE FirstError(<<
            expect_bool(Get(sync_policy, "require_clean_worktree")),
            expect_int(Get(sync_policy, "max_origin_only_commits"), 0),
            expect_bool(Get(sync_policy, "require_upstream_only_commits"))>>))

RECURSIVE TotalWeight(_, _)
TotalWeight(weights, i) ==
    IF i > Len(METRIC_KEYS) THEN 0
    ELSE Get(weights, METRIC_KEYS[i]).value + TotalWeight(weights, i + 1)

ScorecardError(policy, strict) ==
    Bind(Get(policy, "scorecard"), LAMBDA scorecard :
        IF scorecard = Null
        THEN (IF Required(strict) THEN "is required in strict mode" ELSE "none")
        ELSE IF scorecard.type # "object" THEN "must be an object"
        ELSE
        Bind(Get(scorecard, "weights"), LAMBDA weights :
            FirstError(<<
                expect_number(Get(scorecard, "clean_foundation_threshold"), 0),
                expect_dict(weights),
                IF weights.type # "object" THEN "none"
                ELSE FirstError([i \in 1..Len(METRIC_KEYS) |->
                                    expect_number(Get(weights, METRIC_KEYS[i]), 0)]),
                IF weights.type # "object"
                   \/ \E i \in 1..Len(METRIC_KEYS) :
                          expect_number(Get(weights, METRIC_KEYS[i]), 0) # "none"
                THEN "none"
                ELSE IF TotalWeight(weights, 1) <= 0 THEN "weights must sum to > 0"
                ELSE "none">>)))

ScheduleError(policy, strict) ==
    Bind(Get(policy, "schedule"), LAMBDA schedule :
        IF schedule = Null
        THEN (IF Required(strict) THEN "is required in strict mode" ELSE "none")
        ELSE IF schedule.type # "object" THEN "must be an object"
        ELSE FirstError(<<
            expect_non_empty_str(Get(schedule, "timezone")),
            expect_non_empty_str(Get(schedule, "weekly_day")),
            expect_non_empty_str(Get(schedule, "cron_utc"))>>))

\* one metric of a candidate of history_metrics
MetricError(metric_cfg, allowed) ==
    IF metric_cfg.type # "object" THEN "must be an object"
    ELSE IF DOMAIN metric_cfg.fields \ allowed # {} THEN "has unsupported fields"
    ELSE IF \E key \in DOMAIN metric_cfg.fields :
                expect_number(metric_cfg.fields[key], 0) # "none"
    THEN "must be a number >= 0"
    ELSE "none"

CandidateError(history_metrics, candidate_name, allowed_fields) ==
    Bind(Get(history_metrics, candidate_name), LAMBDA candidate_cfg :
        IF candidate_cfg = Null THEN "none"
        ELSE IF candidate_cfg.type # "object" THEN "must be an object"
        ELSE IF DOMAIN candidate_cfg.fields \ DOMAIN allowed_fields # {}
        THEN "has unsupported metrics"
        ELSE IF \E metric_name \in DOMAIN candidate_cfg.fields :
                    MetricError(candidate_cfg.fields[metric_name],
                                allowed_fields[metric_name]) # "none"
        THEN "has an unsupported metric configuration"
        ELSE "none")

HistoryMetricsError(policy) ==
    Bind(Get(policy, "history_metrics"), LAMBDA history_metrics :
        IF history_metrics = Null THEN "none"
        ELSE IF history_metrics.type # "object" THEN "must be an object"
        ELSE FirstError(<<
            CandidateError(history_metrics, "filtered_history", FILTERED_HISTORY_FIELDS),
            CandidateError(history_metrics, "clean_foundation", CLEAN_FOUNDATION_FIELDS)>>))

\* validate_migration_sync_policy: "none" when the policy is accepted, else
\* the section of the first ValueError
validate_migration_sync_policy(payload, strict) ==
    IF payload.type # "object" THEN "policy"
    ELSE IF expect_int(Get(payload, "version"), 1) # "none" THEN "version"
    ELSE IF BlockError(payload, "origin", strict) # "none" THEN "origin"
    ELSE IF BlockError(payload, "upstream", strict) # "none" THEN "upstream"
    ELSE IF SyncButtonPolicyError(payload, strict) # "none" THEN "sync_button_policy"
    ELSE IF ScorecardError(payload, strict) # "none" THEN "scorecard"
    ELSE IF ScheduleError(payload, strict) # "none" THEN "schedule"
    ELSE IF HistoryMetricsError(payload) # "none" THEN "history_metrics"
    ELSE "none"

---------------------------------------------------------------------------
(* Validation of every small migration/sync policy, in both modes *)

MaxPolicyChecks == 2

Absent == [type |-> "absent"]

\* a JSON object with the keys that are not absent
Document(fields) == Obj([k \in {x \in DOMAIN fields : fields[x] # Absent} |-> fields[k]])

Block(remote, branch, url) ==
    Document([remote |-> remote, branch |-> branch, url |-> url])

Origins ==
    {Absent, Null, Str(<<"origin">>),
     Block(Str(<<"origin">>), Str(<<"main">>), Absent),
     Block(Str(<<Space>>), Str(<<"main">>), Absent)}

Upstreams ==
    {Absent,
     Block(Str(<<"upstream">>), Str(<<"main">>), Str(<<"https">>)),
     Block(Str(<<"upstream">>), Str(<<"main">>), Absent),
     Block(Str(<<"upstream">>), Str(<<"main">>), Integer(1))}

SyncButtonPolicies ==
    {Absent,
     Document([require_clean_worktree |-> Boolean(TRUE),
               max_origin_only_commits |-> Integer(0),
               require_upstream_only_commits |-> Boolean(FALSE)]),
     Document([require_clean_worktree |-> Boolean(TRUE),
               max_origin_only_commits |-> Integer(0 - 1),
               require_upstream_only_commits |-> Boolean(FALSE)])}

Weights(n) ==
    Document([privacy_risk |-> Integer(n), simplicity |-> Integer(0),
              merge_conflict_risk |-> Integer(0), auditability |-> Integer(0)])

Scorecards ==
    {Absent,
     Document([clean_foundation_threshold |-> Integer(1), weights |-> Weights(1)]),
     Document([clean_foundation_threshold |-> Integer(1), weights |-> Weights(0)])}

Schedules ==
    {Absent,
     Document([timezone |-> Str(<<"UTC">>), weekly_day |-> Str(<<"monday">>),
               cron_utc |-> Str(<<"0">>)]),
     Document([timezone |-> Str(<<>>), weekly_day |-> Str(<<"monday">>),
               cron_utc |-> Str(<<"0">>)])}

HistoryMetrics ==
    {Absent,
     Document([filtered_history |->
                   Document([privacy_risk |-> Document([base |-> Integer(1)])])]),
     Document([clean_foundation |->
                   Document([privacy_risk |-> Document([block_penalty |-> Integer(1)])])])}

Versions == {Absent, Integer(0), Integer(1)}

SyncPolicy(version, origin, upstream, sync_button_policy, scorecard, schedule,
           history_metrics) ==
    Document([version |-> version, origin |-> origin, upstream |-> upstream,
              sync_button_policy |-> sync_button_policy, scorecard |-> scorecard,
              schedule |-> schedule, history_metrics |-> history_metrics])

SyncPolicies ==
    {SyncPolicy(version, origin, upstream, sync_button_policy, scorecard, schedule,
                history_metrics) :
        version \in Versions, origin \in Origins, upstream \in Upstreams,
        sync_button_policy \in SyncButtonPolicies, scorecard \in Scorecards,
        schedule \in Schedules, history_metrics \in HistoryMetrics}

InitPolicy ==
    /\ fs = InitTree
    /\ package_root = << <<"pkg">> >>
    /\ pkg_manifest = NoManifest
    /\ last = Idle
    /\ exported = NoExport
    /\ runs = 0
    /\ edits = 0
    /\ rel_path = <<>>
    /\ guard = NoGuard
    /\ ext_manifest = NoExtension
    /\ migrated = NotMigrated
    /\ \E policy \in SyncPolicies : config = [present |-> TRUE, policy |-> policy]
    /\ extensions = <<>>
    /\ batch = NoBatch

\* one call of validate_migration_sync_policy on the policy
ValidatePolicy(strict) ==
    /\ runs < MaxPolicyChecks
    /\ batch' = [op |-> "policy", strict |-> strict,
                 error |-> validate_migration_sync_policy(config.policy, strict)]
    /\ runs' = runs + 1
    /\ UNCHANGED <<fs, package_root, pkg_manifest, last, exported, edits, rel_path, guard,
                   ext_manifest, migrated, config, extensions>>

NextPolicy == \E strict \in BOOLEAN : ValidatePolicy(strict)

SpecPolicy == InitPolicy /\ [][NextPolicy]_vars

---------------------------------------------------------------------------
(* The contracts check (main of scripts/delta_contract_check.py) *)

\* the issues of the entrypoints of the manifest of directory i from
\* entrypoint k on
RECURSIVE EntrypointIssues(_, _, _, _, _)
EntrypointIssues(f, repo_root, i, entrypoints, k) ==
    IF k > Len(entrypoints) THEN <<>>
    ELSE
    Bind(resolve_safe_child(repo_root, entrypoints[k].path), LAMBDA candidate :
        (IF ~candidate.ok THEN << [dir |-> i, issue |-> "unsafe entrypoint", at |-> k] >>
         ELSE IF ~IsFile(f, candidate.loc)
         THEN << [dir |-> i, issue |-> "entrypoint path missing", at |-> k] >>
         ELSE <<>>)
        \o EntrypointIssues(f, repo_root, i, entrypoints, k + 1))

StopsAtFirstIssue(issues) == issues # <<>>

\* the loop over the extension directories goes on after an issue
StopsAtIssue(issues) == FALSE

\* the loop over the sorted extension directories from directory i on
RECURSIVE ExtensionIssues(_, _, _, _, _)
ExtensionIssues(f, repo_root, dirs, i, issues) ==
    IF i > Len(dirs) \/ StopsAtIssue(issues) THEN issues
    ELSE IF ~dirs[i].present
    THEN ExtensionIssues(f, repo_root, dirs, i + 1,
                         Append(issues, [dir |-> i, issue |-> "missing manifest.json", at |-> 0]))
    ELSE IF ~validate_extension_manifest(dirs[i])
    THEN ExtensionIssues(f, repo_root, dirs, i + 1,
                         Append(issues, [dir |-> i, issue |-> "invalid manifest", at |-> 0]))
    ELSE ExtensionIssues(f, repo_root, dirs, i + 1,
                         issues \o EntrypointIssues(f, repo_root, i, dirs[i].entrypoints, 1))

PolicyIssues(cfg) ==
    IF cfg.policy = Absent \/ validate_migration_sync_policy(cfg.policy, TRUE) # "none"
    THEN << [dir |-> 0, issue |-> "policy", at |-> 0] >>
    ELSE <<>>

StateManifestIssues(cfg) ==
    IF ~cfg.state_manifest.present \/ ~validate_state_migration_manifest(cfg.state_manifest)
    THEN << [dir |-> 0, issue |-> "state manifest", at |-> 0] >>
    ELSE <<>>

\* the exit status of a run that found the issues
CheckStatus(issues, strict) == IF issues # <<>> /\ strict THEN 1 ELSE 0

\* main of delta_contract_check.py with the handler of its exceptions
CheckMain(f, repo_root, cfg, dirs, strict, repo_ok) ==
    IF ~repo_ok THEN [exit |-> 2, issues |-> <<>>, outcome |-> "no_repo"]
    ELSE
    Bind(PolicyIssues(cfg) \o StateManifestIssues(cfg)
           \o (IF ~cfg.extensions_dir
               THEN << [dir |-> 0, issue |-> "extensions directory missing", at |-> 0] >>
               ELSE ExtensionIssues(f, repo_root, dirs, 1, <<>>)), LAMBDA issues :
        [exit |-> CheckStatus(issues, strict), issues |-> issues,
         outcome |-> IF issues # <<>> THEN "issues" ELSE "ok"])

---------------------------------------------------------------------------
(* The contracts check on every small configuration *)

Entrypoint(path) == [key |-> <<"doctor">>, path |-> path]
Sound == ExtensionManifest(<<"n">>, <<>>, NoContract, <<Entrypoint(FileA)>>)
UnsafeEntrypoint ==
    ExtensionManifest(<<"n">>, <<>>, NoContract, <<Entrypoint(<<Dot, Dot, Sep, "a">>)>>)
\* a missing file, a file and a directory as entrypoints
TwoMissingEntrypoints ==
    ExtensionManifest(<<"n">>, <<>>, NoContract,
                      <<Entrypoint(FileD), Entrypoint(FileA), Entrypoint(<<"b">>)>>)
Nameless == ExtensionManifest(<<Space>>, <<>>, NoContract, <<Entrypoint(FileA)>>)

CheckedManifests ==
    {NoExtension, Sound, UnsafeEntrypoint, TwoMissingEntrypoints, Nameless}

CheckedPolicy(schedule) ==
    SyncPolicy(Integer(1),
               Block(Str(<<"origin">>), Str(<<"main">>), Absent),
               Block(Str(<<"upstream">>), Str(<<"main">>), Str(<<"https">>)),
               Document([require_clean_worktree |-> Boolean(TRUE),
                         max_origin_only_commits |-> Integer(0),
                         require_upstream_only_commits |-> Boolean(FALSE)]),
               Document([clean_foundation_threshold |-> Integer(1), weights |-> Weights(1)]),
               schedule,
               Absent)

\* no policy file, a policy with every section, a policy without schedule
CheckedPolicies ==
    {Absent,
     CheckedPolicy(Document([timezone |-> Str(<<"UTC">>), weekly_day |-> Str(<<"monday">>),
                             cron_utc |-> Str(<<"0">>)])),
     CheckedPolicy(Absent)}

NoStateManifest == [present |-> FALSE]
StateManifest(m) == [k \in DOMAIN m \cup {"present"} |-> IF k = "present" THEN TRUE ELSE m[k]]

CheckedStateManifests ==
    {NoStateManifest,
     StateManifest(MigrationManifest(<<FileA, FileBC>>, <<>>, <<>>)),
     StateManifest(MigrationManifest(<<>>, <<GlobOldPayload>>, <<>>))}

InitCheck ==
    /\ fs = InitTree
    /\ package_root = << <<"pkg">> >>
    /\ pkg_manifest = NoManifest
    /\ last = Idle
    /\ exported = NoExport
    /\ runs = 0
    /\ edits = 0
    /\ rel_path = <<>>
    /\ guard = NoGuard
    /\ ext_manifest = NoExtension
    /\ migrated = NotMigrated
    /\ \E policy \in CheckedPolicies, state_manifest \in CheckedStateManifests,
          extensions_dir \in BOOLEAN :
           /\ config = [present |-> TRUE, policy |-> policy,
                        state_manifest |-> state_manifest,
                        extensions_dir |-> extensions_dir]
           /\ extensions \in (IF extensions_dir
                              THEN UNION {[1..n -> CheckedManifests] : n \in 0..MaxDirs}
                              ELSE {<<>>})
    /\ batch = NoBatch

\* one run of the contracts check
CheckRun(strict, repo_ok) ==
    /\ runs < MaxBatchRuns
    /\ \E r \in {CheckMain(fs, RepoRoot, config, extensions, strict, repo_ok)} :
         batch' = [op |-> "check", strict |-> strict, repo_ok |-> repo_ok,
                   exit |-> r.exit, outcome |-> r.outcome, issues |-> r.issues]
    /\ runs' = runs + 1
    /\ UNCHANGED <<fs, package_root, pkg_manifest, last, exported, edits, rel_path, guard,
                   ext_manifest, migrated, config, extensions>>

NextCheck == \E strict \in BOOLEAN, repo_ok \in BOOLEAN : CheckRun(strict, repo_ok)

SpecCheck == InitCheck /\ [][NextCheck]_vars

---------------------------------------------------------------------------
(* validate_package_manifest on package manifests with every small digest *)

MaxEntries == 2
MaxPackageChecks == 1

\* str.upper() of one character
Upper(t) ==
    CASE t = "a" -> "A"
      [] t = "b" -> "B"
      [] t = "c" -> "C"
      [] t = "d" -> "D"
      [] t = "e" -> "E"
      [] t = "f" -> "F"
      [] OTHER -> t

UpperCased(s) == [i \in 1..Len(s) |-> Upper(s[i])]

\* the place of the first letter of a digest
FirstLetter(s) ==
    CHOOSE i \in 1..Len(s) :
        s[i] \notin Range(Digits) /\ \A j \in 1..(i - 1) : s[j] \in Range(Digits)

\* the digest of a file, and what a hand can make of it
Sha256Values ==
    {Digest(<<1>>),
     UpperCased(Digest(<<1>>)),
     [i \in 1..DigestLen |->
         IF i = FirstLetter(Digest(<<1>>)) THEN Upper(Digest(<<1>>)[i]) ELSE Digest(<<1>>)[i]],
     <<Space>> \o Digest(<<1>>) \o <<Space>>,
     SubSeq(Digest(<<1>>), 1, DigestLen - 1),
     Digest(<<1>>) \o <<"0">>,
     [Digest(<<1>>) EXCEPT ![1] = "g"],
     <<>>}

PackageEntry(path, sha256) == [path |-> path, sha256 |-> sha256, size_bytes |-> 1]

EntryLists ==
    UNION {[1..n -> {PackageEntry(FileA, sha256) : sha256 \in Sha256Values}] :
              n \in 1..MaxEntries}

PackageManifest(entries) ==
    [exists |-> TRUE, package_version |-> 1, manifest_version |-> 1,
     package_name |-> <<"state">>, created_at |-> <<"now">>,
     source_repo |-> <<Sep, "repo">>, source_commit |-> <<"head">>,
     dry_run_preview |-> FALSE, entry_count |-> Len(entries), entries |-> entries]

InitDigest ==
    /\ fs = InitTree
    /\ package_root = << <<"pkg">> >>
    /\ pkg_manifest \in {PackageManifest(entries) : entries \in EntryLists}
    /\ last = Idle
    /\ exported = NoExport
    /\ runs = 0
    /\ edits = 0
    /\ rel_path = <<>>
    /\ guard = NoGuard
    /\ ext_manifest = NoExtension
    /\ migrated = NotMigrated
    /\ config = NoConfig
    /\ extensions = <<>>
    /\ batch = NoBatch

\* one call of validate_package_manifest on the package manifest
ValidatePackage ==
    /\ runs < MaxPackageChecks
    /\ batch' = [op |-> "package", error |-> validate_package_manifest(pkg_manifest)]
    /\ runs' = runs + 1
    /\ UNCHANGED <<fs, package_root, pkg_manifest, last, exported, edits, rel_path, guard,
                   ext_manifest, migrated, config, extensions>>

NextDigest == ValidatePackage

SpecDigest == InitDigest /\ [][NextDigest]_vars

---------------------------------------------------------------------------
(* Properties of the exporter and of the round trip (specification Spec) *)

PayloadRoot == package_root \o <<Payload>>
PayloadOf(entry) == Resolve(PayloadRoot, PathParts(entry.path))
TargetOf(entry) == Resolve(TargetRoot, PathParts(entry.path))
Entries == pkg_manifest.entries
EntrySet == Range(Entries)

\* the part of a tree at or below a location
Below(f, root) == [p \in {q \in DOMAIN f : IsPrefix(root, q)} |-> f[p]]
FilesBelow(f, root) == {p \in DOMAIN f : IsPrefix(root, p) /\ IsFile(f, p)}

ExportDone == last.op = "export"
ImportDone == last.op = "import"
RealImport == ImportDone /\ ~last.dry_run

\* C1: after a successful export with dry_run false, every entry of the
\* written package manifest has its payload file in the package, with the
\* SHA-256 and the size the entry records.
C1_PayloadMatchesManifest ==
    (ExportDone /\ last.exit = 0 /\ ~last.dry_run) =>
        \A e \in EntrySet :
            /\ IsFile(fs, PayloadOf(e))
            /\ Digest(fs[PayloadOf(e)].data) = e.sha256
            /\ Len(fs[PayloadOf(e)].data) = e.size_bytes

\* the files the last successful export selected, in the tree it read
SelectedByExport ==
    Range(collect_manifest_files(exported.tree, RepoRoot,
                                 exported.manifest.required_files,
                                 exported.manifest.optional_globs,
                                 exported.manifest.exclude_globs).files)
RelOf(p) == SubSeq(p, Len(RepoRoot) + 1, Len(p))

\* C2: round trip: a real-run import of the package a successful non-dry-run
\* export of a valid migration manifest has just written, into an empty
\* target, succeeds and leaves in the target exactly the selected files, at
\* their relative paths, with the bytes of the source.
C2_RoundTrip ==
    ( /\ RealImport
      /\ exported.valid /\ ~exported.dry_run
      /\ validate_state_migration_manifest(exported.manifest)
      /\ DOMAIN Below(last.pre_fs, TargetRoot) = {TargetRoot} )
    =>
    ( /\ last.exit = 0
      /\ FilesBelow(fs, TargetRoot) = {TargetRoot \o RelOf(p) : p \in SelectedByExport}
      /\ \A p \in SelectedByExport :
             fs[TargetRoot \o RelOf(p)] = File(exported.tree[p].data) )

---------------------------------------------------------------------------
(* Properties of the importer (specification SpecImport) *)

Accepted == pkg_manifest.exists /\ validate_package_manifest(pkg_manifest) = "none"

\* what an operator would call offending, read from the trees before the run
ExistingTargets == {e.path : e \in {x \in EntrySet : Exists(last.pre_fs, TargetOf(x))}}
MissingPayloads == {e.path : e \in {x \in EntrySet : ~IsFile(last.pre_fs, PayloadOf(x))}}
Mismatched ==
    {e.path : e \in {x \in EntrySet :
        /\ IsFile(last.pre_fs, PayloadOf(x))
        /\ \/ Len(last.pre_fs[PayloadOf(x)].data) # x.size_bytes
           \/ Digest(last.pre_fs[PayloadOf(x)].data) # x.sha256}}

TargetUnchanged == Below(fs, TargetRoot) = Below(last.pre_fs, TargetRoot)

\* C3: a real-run import of an accepted package without allow_overwrite, into
\* a target where some entry path exists, exits non-zero, reports exactly the
\* existing entry paths as conflicts and writes nothing; with allow_overwrite
\* no import is ever refused for conflicts.
C3_ConflictsExactAndBlocking ==
    /\ (RealImport /\ Accepted /\ ~last.allow_overwrite /\ ExistingTargets # {}) =>
           /\ last.exit # 0
           /\ last.outcome = "conflicts"
           /\ Range(last.reported.conflicts) = ExistingTargets
           /\ fs = last.pre_fs
    /\ (ImportDone /\ last.allow_overwrite) =>
           last.outcome # "conflicts" /\ last.reported.conflicts = <<>>

\* C3 witness: of two entries exactly one exists in the target, and the import is refused
C3_Witness ==
    /\ RealImport /\ ~last.allow_overwrite /\ last.outcome = "conflicts"
    /\ Len(Entries) = 2 /\ Len(last.reported.conflicts) = 1

\* C4: a real-run import of a package whose manifest is a dry-run preview
\* exits non-zero and writes nothing, whatever the target, the flags, the
\* entries and the payload.
C4_PreviewNeverImported ==
    (RealImport /\ pkg_manifest.exists /\ pkg_manifest.dry_run_preview) =>
        last.exit # 0 /\ fs = last.pre_fs

\* C4 witness: a preview manifest whose payload files are all present is refused
C4_Witness ==
    /\ RealImport /\ last.outcome = "preview" /\ last.allow_overwrite
    /\ Entries # <<>> /\ MissingPayloads = {} /\ Mismatched = {}

\* C5: a dry-run import changes nothing, and exits 0 whenever the package
\* manifest is accepted, whatever it found.
C5_DryRunImportIsPure ==
    (ImportDone /\ last.dry_run) =>
        /\ fs = last.pre_fs
        /\ Accepted => last.exit = 0

\* C5 witness: a dry run that found a conflict and a missing payload exits 0
C5_Witness ==
    /\ ImportDone /\ last.dry_run /\ last.exit = 0
    /\ last.plan.conflicts # <<>> /\ last.plan.missing_payload # <<>>

\* C6: a real-run import with an entry whose payload is missing, or differs in
\* size or SHA-256 from the manifest, exits non-zero and leaves the target
\* unchanged, also with allow_overwrite; so a run that writes has verified
\* every payload file.
C6_WritesOnlyVerifiedPayload ==
    /\ (RealImport /\ (MissingPayloads # {} \/ Mismatched # {})) =>
           last.exit # 0 /\ TargetUnchanged
    /\ (RealImport /\ ~TargetUnchanged) =>
           \A e \in EntrySet :
               /\ IsFile(last.pre_fs, PayloadOf(e))
               /\ Len(last.pre_fs[PayloadOf(e)].data) = e.size_bytes
               /\ Digest(last.pre_fs[PayloadOf(e)].data) = e.sha256

\* C6 witness: a payload of the right size and the wrong bytes stops an
\* import that allow_overwrite would otherwise let through
C6_Witness ==
    /\ RealImport /\ last.allow_overwrite /\ last.outcome = "integrity"
    /\ \E e \in EntrySet :
           /\ IsFile(last.pre_fs, PayloadOf(e))
           /\ Len(last.pre_fs[PayloadOf(e)].data) = e.size_bytes
           /\ Digest(last.pre_fs[PayloadOf(e)].data) # e.sha256

\* C7: a refused real-run import reports every offending entry: every
\* conflict, every missing payload and every integrity error.
C7_RefusalReportsEverything ==
    (RealImport /\ last.outcome \in {"conflicts", "missing_payload", "integrity"}) =>
        /\ last.allow_overwrite \/ ExistingTargets \subseteq Range(last.reported.conflicts)
        /\ pkg_manifest.dry_run_preview
               \/ MissingPayloads \subseteq Range(last.reported.missing_payload)
        /\ Mismatched \subseteq {x.path : x \in Range(last.reported.integrity_errors)}

\* every planned file is in the target with the bytes of its payload
AllWritten ==
    \A e \in EntrySet :
        /\ IsFile(last.pre_fs, PayloadOf(e))
        /\ IsFile(fs, TargetOf(e))
        /\ fs[TargetOf(e)].data = last.pre_fs[PayloadOf(e)].data

\* C8: a real-run import ends with every planned file written or with the
\* target unchanged.
C8_ImportIsAtomic ==
    RealImport => (TargetUnchanged \/ AllWritten)

\* an entry path that is absolute or has a `..` segment, read off the string
UnsafeString(s) == (s # <<>> /\ Head(s) = Sep) \/ DotDot \in Range(SplitSep(s))

\* C9: an import touches payload sources only below <package>/payload and
\* destinations only below the target root, changes nothing outside the
\* target, and rejects a manifest with an absolute or `..` entry path in
\* validation, before it touches any payload or target file.
C9_ImportStaysInsideItsTrees ==
    ImportDone =>
        /\ \A loc \in last.plan.touched :
               IsPrefix(PayloadRoot, loc) \/ IsPrefix(TargetRoot, loc)
        /\ \A p \in DOMAIN fs \cup DOMAIN last.pre_fs :
               IsPrefix(TargetRoot, p)
               \/ (p \in DOMAIN fs /\ p \in DOMAIN last.pre_fs /\ fs[p] = last.pre_fs[p])
        /\ (pkg_manifest.exists /\ \E e \in EntrySet : UnsafeString(e.path)) =>
               /\ last.outcome = "invalid"
               /\ last.plan.touched = {}
               /\ fs = last.pre_fs

\* C9 witness: a manifest with a `..` entry path is rejected
C9_Witness ==
    /\ ImportDone /\ last.outcome = "invalid"
    /\ \E e \in EntrySet : DotDot \in Range(SplitSep(e.path))
    /\ pkg_manifest.entry_count = Len(Entries)

---------------------------------------------------------------------------
(* Properties of the path guard (specification SpecPath) *)

\* the location a string denotes below a root when it is followed segment by
\* segment: an empty segment and `.` stay, any other segment steps down
RECURSIVE Walk(_, _)
Walk(at, segments) ==
    IF segments = <<>> THEN at
    ELSE IF Head(segments) \in {<<>>, <<Dot>>} THEN Walk(at, Tail(segments))
    ELSE Walk(Append(at, Head(segments)), Tail(segments))

\* C10: ensure_safe_relative fails exactly on the absolute paths and on the
\* paths with a `..` segment; every other path it returns as it is: the
\* returned path names the same segments in the same order (a segment such as
\* `a..a` is kept).
C10_GuardRejectsExactlyUnsafe ==
    guard.called =>
        /\ guard.result.ok <=> ~UnsafeString(rel_path)
        /\ guard.result.ok =>
               Resolve(TargetRoot, guard.result.path) = Walk(TargetRoot, SplitSep(rel_path))

\* C10 witness: a segment that contains two dots without being `..` is accepted
C10_Witness ==
    /\ guard.called /\ guard.result.ok
    /\ rel_path = <<"a", Dot, Dot, "a">>

---------------------------------------------------------------------------
(* Properties of the exporter (specification SpecExport) *)

RequiredOf(m) == Range(m.required_files)

\* the export got as far as reading the migration manifest's rules
RulesRead == ExportDone /\ last.git # "no_repo"

\* C11: an export whose migration manifest has a required path that is
\* absolute or has a `..` segment fails, exports no entry and changes
\* nothing; the path is never normalized into a path of the tree.
C11_UnsafeRequiredRejected ==
    (RulesRead /\ \E rel \in RequiredOf(last.manifest) : UnsafeString(rel)) =>
        /\ last.exit # 0
        /\ last.entries = <<>>
        /\ fs = last.pre_fs

\* the rules of the migration manifest of the last export, and the tree it read
Rules == last.manifest
RequiredLocations == {Resolve(RepoRoot, PathParts(rel)) : rel \in RequiredOf(Rules)}
AllRequiredExist == \A p \in RequiredLocations : IsFile(last.pre_fs, p)

\* a glob pattern matches a relative path segment by segment
SegmentsMatch(pattern, rel) ==
    /\ Len(SplitSep(pattern)) = Len(SplitSep(rel))
    /\ \A i \in 1..Len(SplitSep(pattern)) :
           WildMatch(SplitSep(pattern)[i], SplitSep(rel)[i], TRUE)

\* the relative paths the rules select in the tree: the regular files that are
\* required or match an optional glob, and that match no exclude glob
ExpectedSelection ==
    {JoinParts(RelOf(p)) : p \in
        {q \in FilesBelow(last.pre_fs, RepoRoot) :
            /\ \/ q \in RequiredLocations
               \/ \E g \in Range(Rules.optional_globs) : SegmentsMatch(g, JoinParts(RelOf(q)))
            /\ ~\E x \in Range(Rules.exclude_globs) : WildMatch(x, JoinParts(RelOf(q)), TRUE)}}

Collected ==
    collect_manifest_files(last.pre_fs, RepoRoot, Rules.required_files,
                           Rules.optional_globs, Rules.exclude_globs)
CollectedPaths == [i \in 1..Len(Collected.files) |-> JoinParts(RelOf(Collected.files[i]))]
ManifestWritten == ExportDone /\ last.outcome \in {"preview", "exported", "copy_failed"}

\* C12: on a tree where every required file exists, the collector returns
\* exactly the required files and the regular files matching an optional glob,
\* without those matching an exclude glob, each relative path once, in
\* ascending order of relative path; the entries of the export are these.
C12_CollectorSelection ==
    (RulesRead /\ AllRequiredExist) =>
        /\ Collected.error = "none"
        /\ Range(CollectedPaths) = ExpectedSelection
        /\ \A i, j \in 1..Len(CollectedPaths) :
               i < j => StrLess(CollectedPaths[i], CollectedPaths[j])
        /\ ManifestWritten =>
               [i \in 1..Len(last.entries) |-> last.entries[i].path] = CollectedPaths

\* C12 witness: a file required twice appears once, an optional glob adds a
\* file and an exclude glob removes a required file
C12_Witness ==
    /\ ManifestWritten /\ last.exit = 0
    /\ Rules.exclude_globs # <<>>
    /\ CollectedPaths = <<FileA, FileBC>>
    /\ RepoRoot \o <<FileC>> \in RequiredLocations
    /\ Len(Rules.required_files) = 3

\* the destination holds something before the last run
DestinationWasOccupied ==
    \E p \in DOMAIN last.pre_fs : IsPrefix(package_root, p) /\ p # package_root

\* C13: an export whose migration manifest names a required path that is not
\* a regular file of the tree fails with the missing-required-file error and
\* leaves the trees and the package manifest of the destination as they were,
\* with force too.
C13_MissingRequiredLeavesDestination ==
    [][ (last'.op = "export" /\ runs' # runs /\ RulesRead' /\ ~AllRequiredExist') =>
            /\ last'.exit # 0
            /\ last'.outcome = "missing"
            /\ fs' = fs
            /\ pkg_manifest' = pkg_manifest ]_vars

\* C13 witness: a forced export into an occupied destination fails for a
\* missing required file
C13_Witness ==
    /\ ExportDone /\ last.force /\ last.outcome = "missing"
    /\ ~AllRequiredExist
    /\ DestinationWasOccupied /\ pkg_manifest.exists

\* package_root.exists() and any(package_root.iterdir()), read off the state
\* before a run: the manifest file is an item of the directory too
Occupied == Exists(fs, package_root) /\ (pkg_manifest.exists \/ NonEmptyDir(fs, package_root))

PayloadLocations == {PayloadOf(e) : e \in EntrySet}

\* the destination holds the payload of the entries of its manifest and
\* nothing else
OnlyCurrentPackage ==
    /\ pkg_manifest.exists /\ Entries = last.entries
    /\ FilesBelow(fs, package_root) \subseteq PayloadLocations
    /\ ~last.dry_run => FilesBelow(fs, package_root) = PayloadLocations
    /\ \A d \in DOMAIN fs :
           (IsPrefix(package_root, d) /\ IsDir(fs, d)) =>
               d = package_root \/ \E p \in PayloadLocations : IsPrefix(d, p)

\* C14: an export without force into a destination that exists and is not
\* empty fails and changes nothing; a successful export with force leaves in
\* the destination the package manifest and the payload of the current
\* entries only.
C14_ForceReplacesDestination ==
    /\ [][ (last'.op = "export" /\ runs' # runs /\ Occupied /\ ~last'.force) =>
               /\ last'.exit # 0
               /\ fs' = fs
               /\ pkg_manifest' = pkg_manifest ]_vars
    /\ []((ExportDone /\ last.force /\ last.exit = 0 /\ DestinationWasOccupied) =>
               OnlyCurrentPackage)

\* C14 witness: a forced export has replaced a destination that held a file
\* of earlier content, and has copied a payload
C14_Witness ==
    /\ ExportDone /\ last.force /\ last.exit = 0 /\ ~last.dry_run
    /\ PayloadLocations # {}
    /\ \E p \in DOMAIN last.pre_fs :
           /\ IsPrefix(package_root, p) /\ IsFile(last.pre_fs, p)
           /\ p \notin DOMAIN fs

\* the last run changed nothing outside the destination
OnlyDestinationChanged ==
    \A p \in DOMAIN fs \cup DOMAIN last.pre_fs :
        IsPrefix(package_root, p)
        \/ (p \in DOMAIN fs /\ p \in DOMAIN last.pre_fs /\ fs[p] = last.pre_fs[p])

\* C15: a successful dry-run export writes a package manifest with
\* dry_run_preview true and an entry_count of zero or more and copies no
\* payload file; a successful real export writes dry_run_preview false; a
\* manifest an export wrote has the dry-run flag of that run.
C15_DryRunExportWritesPreviewOnly ==
    /\ (ExportDone /\ last.exit = 0 /\ last.dry_run) =>
           /\ pkg_manifest.exists /\ pkg_manifest.dry_run_preview
           /\ pkg_manifest.entry_count >= 0
           /\ FilesBelow(fs, package_root) = {}
           /\ OnlyDestinationChanged
    /\ (ExportDone /\ last.exit = 0 /\ ~last.dry_run) =>
           pkg_manifest.exists /\ ~pkg_manifest.dry_run_preview
    /\ ManifestWritten => pkg_manifest.dry_run_preview = last.dry_run

\* C15 witness: a forced dry run over an earlier package lists two entries
\* and leaves no payload
C15_Witness ==
    /\ ExportDone /\ last.exit = 0 /\ last.dry_run /\ last.force
    /\ pkg_manifest.entry_count = 2
    /\ FilesBelow(last.pre_fs, package_root) # {}

\* C16: a failure of the revision lookup or of the repository-root lookup
\* never makes an export fail; the export that would succeed still succeeds
\* and records an empty source_commit.
C16_GitFailureDegrades ==
    (ExportDone /\ last.git # "ok") =>
        /\ last.outcome # "git"
        /\ last.exit = 0 => pkg_manifest.source_commit = <<>>

---------------------------------------------------------------------------
(* Properties of the package manifest's entry count (specification SpecImport) *)

\* the top-level fields of the package manifest pass their own checks
TopLevelWellFormed ==
    /\ pkg_manifest.exists
    /\ pkg_manifest.package_version >= 1 /\ pkg_manifest.manifest_version >= 1
    /\ ~EmptyStr(pkg_manifest.package_name) /\ ~EmptyStr(pkg_manifest.created_at)
    /\ ~EmptyStr(pkg_manifest.source_repo)
    /\ pkg_manifest.entry_count >= 0

\* C17: the package manifest as export wrote it has entry_count equal to the
\* number of its entries; a manifest whose top-level fields are well formed
\* and whose entry_count is not the number of entries is rejected with the
\* count-mismatch error; an import of a manifest with a wrong entry_count
\* fails in validation, before it plans or writes anything.
C17_EntryCountGuardsTheEntries ==
    /\ (edits = 0 /\ pkg_manifest.exists) => pkg_manifest.entry_count = Len(Entries)
    /\ (TopLevelWellFormed /\ pkg_manifest.entry_count # Len(Entries)) =>
           validate_package_manifest(pkg_manifest) = "entry_count_mismatch"
    /\ (ImportDone /\ pkg_manifest.exists /\ pkg_manifest.entry_count # Len(Entries)) =>
           /\ last.exit # 0 /\ last.outcome = "invalid"
           /\ last.plan.touched = {}
           /\ fs = last.pre_fs

\* C17 witness: a manifest that declares two entries and lists one is refused
C17_Witness ==
    /\ ImportDone /\ last.outcome = "invalid"
    /\ pkg_manifest.entry_count = 2 /\ Len(Entries) = 1
    /\ validate_package_manifest(pkg_manifest) = "entry_count_mismatch"

---------------------------------------------------------------------------
(* Properties of the migration (specification SpecMigrate) *)

Before == migrated.before
After == migrated.manifest
Migrated == migrated.called /\ migrated.ok

\* C18: migration is idempotent: applied to the manifest a successful
\* migration returned, it returns changed = False and that same manifest,
\* with the same command keys in the same order, the same paths and the same
\* command_contract.
C18_MigrationIsIdempotent ==
    /\ (migrated.called /\ migrated.again) =>
           migrated.ok /\ ~migrated.changed /\ After = Before
    /\ \A r \in {migrate_extension_manifest(ext_manifest)} :
           r.ok => migrate_extension_manifest(r.manifest)
                       = [ok |-> TRUE, manifest |-> r.manifest, changed |-> FALSE]

\* C18 witness: the second migration of a manifest whose keys had collided
\* leaves the numbered keys alone
C18_Witness ==
    /\ migrated.called /\ migrated.again /\ ~migrated.changed
    /\ \E i \in 1..Len(ext_manifest.commands) :
           ext_manifest.commands[i].key = <<"n", Sep, "a", Hyphen, "2", Hyphen, "2">>

\* the namespace of the migrated manifest, and for command i the suffix its
\* key slugs to and the key the migration gave it
Namespace == normalize_slug(Strip(Before.name))
RawSuffix(key) ==
    IF IsPrefix(Namespace \o <<Sep>>, Strip(key)) THEN AfterFirstSep(Strip(key)) ELSE Strip(key)
SuffixOf(i) ==
    IF normalize_slug(RawSuffix(Before.commands[i].key)) = <<>> THEN <<"command">>
    ELSE normalize_slug(RawSuffix(Before.commands[i].key))
NewKey(i) == After.commands[i].key
Numbered(s, k) ==
    Namespace \o <<Sep>> \o s \o (IF k = 1 THEN <<>> ELSE <<Hyphen, Digits[k + 1]>>)
Taken(i) == {NewKey(j) : j \in 1..(i - 1)}
Group(i) == {j \in 1..Len(Before.commands) : SuffixOf(j) = SuffixOf(i)}
Counters == 1..9
Rekeyed == Migrated /\ migrated.changed

\* C19 as stated: of the keys that slug to one suffix s the first gets
\* <namespace>/s and each later one <namespace>/s-k for the smallest k >= 2
\* whose key is not yet taken.
C19_FirstOfGroupGetsPlainKey ==
    Rekeyed =>
        \A i \in 1..Len(Before.commands) :
            Cardinality(Group(i)) >= 2 =>
                IF \A j \in Group(i) : i <= j
                THEN NewKey(i) = Numbered(SuffixOf(i), 1)
                ELSE \E k \in Counters \ {1} :
                         /\ NewKey(i) = Numbered(SuffixOf(i), k)
                         /\ NewKey(i) \notin Taken(i)
                         /\ \A n \in 2..(k - 1) : Numbered(SuffixOf(i), n) \in Taken(i)

\* C19: in declaration order every command gets <namespace>/s for its suffix
\* s when that key is not yet taken, else <namespace>/s-k for the smallest
\* k >= 2 whose key is not yet taken; the keys are pairwise distinct, and
\* every command keeps its place and its path.
C19_CollisionsGetFreeKeys ==
    Rekeyed =>
        /\ Len(After.commands) = Len(Before.commands)
        /\ \A i \in 1..Len(Before.commands) :
               /\ After.commands[i].path = Before.commands[i].path
               /\ \E k \in Counters :
                      /\ NewKey(i) = Numbered(SuffixOf(i), k)
                      /\ NewKey(i) \notin Taken(i)
                      /\ \A n \in 1..(k - 1) : Numbered(SuffixOf(i), n) \in Taken(i)
        /\ \A i, j \in 1..Len(After.commands) : i # j => NewKey(i) # NewKey(j)

\* C19 witness: two keys slug to a-2 after two keys that slug to a; the first
\* of them finds a-2 taken
C19_Witness ==
    /\ Rekeyed /\ Len(Before.commands) = 4
    /\ Before.commands[3].key = <<"a", Hyphen, "2">>
    /\ NewKey(2) = <<"n", Sep, "a", Hyphen, "2">>
    /\ NewKey(3) = <<"n", Sep, "a", Hyphen, "2", Hyphen, "2">>
    /\ NewKey(4) = <<"n", Sep, "a", Hyphen, "2", Hyphen, "3">>

\* C20: a manifest with commands that a migration returned has every command
\* key under <namespace>/, distinct keys, and a command_contract of version 1
\* whose namespace is exactly the slug of the name, whether or not the
\* migration changed anything.
C20_MigratedManifestIsNamespaced ==
    (Migrated /\ Before.commands # <<>>) =>
        /\ \A i \in 1..Len(After.commands) : IsPrefix(Namespace \o <<Sep>>, NewKey(i))
        /\ \A i, j \in 1..Len(After.commands) : i # j => NewKey(i) # NewKey(j)
        /\ After.command_contract = Contract(1, Namespace)

---------------------------------------------------------------------------
(* Properties of the migrate command (specification SpecBatch) *)

MigrateDone == batch.op = "migrate"
LoopEntered == MigrateDone /\ batch.outcome \in {"manifest_failed", "listed"}
DirsBefore == batch.before
Present(dirs) == {i \in 1..Len(dirs) : dirs[i].present}

\* the manifest has commands and its name gives an empty namespace slug
NoNamespace(m) == m.present /\ m.commands # <<>> /\ normalize_slug(Strip(m.name)) = <<>>

\* the migration of the manifest of directory i succeeds and changes it
NeedsWrite(i) ==
    /\ DirsBefore[i].present
    /\ migrate_extension_manifest(DirsBefore[i]).ok
    /\ migrate_extension_manifest(DirsBefore[i]).changed

\* C21: in a migrate run with --write over several extension directories a
\* manifest whose name gives an empty namespace slug fails alone: every
\* other manifest that needs migration, before or after the failing one in
\* processing order, is still inspected and rewritten with its migrated form.
C21_UnnameableManifestFailsAlone ==
    (LoopEntered /\ batch.write /\ \E i \in Present(DirsBefore) : NoNamespace(DirsBefore[i]))
        => \A j \in 1..Len(DirsBefore) :
               NeedsWrite(j) =>
                   extensions[j] = migrate_extension_manifest(DirsBefore[j]).manifest

\* the directories whose manifest needs migration, in processing order
RECURSIVE NeedingMigration(_)
NeedingMigration(i) ==
    IF i > Len(DirsBefore) THEN <<>>
    ELSE (IF NeedsWrite(i) THEN <<i>> ELSE <<>>) \o NeedingMigration(i + 1)

\* a run without --write modifies no file
DryRunModifiesNothing ==
    (MigrateDone /\ ~batch.write) => extensions = DirsBefore

\* a run without --write counts and lists every manifest that needs migration
DryRunListsAll ==
    (LoopEntered /\ ~batch.write)
        => /\ batch.changed_files = NeedingMigration(1)
           /\ batch.inspected = Cardinality(Present(DirsBefore))

\* a run with --write changes a manifest file only into the migrated form
\* of a manifest that needed migration, and a run that ends normally
\* rewrites every such file
WriteRewritesExactly ==
    (MigrateDone /\ batch.write)
        => /\ Len(extensions) = Len(DirsBefore)
           /\ \A j \in 1..Len(DirsBefore) :
                  extensions[j] # DirsBefore[j] =>
                      /\ NeedsWrite(j)
                      /\ extensions[j] = migrate_extension_manifest(DirsBefore[j]).manifest
           /\ batch.exit = 0 =>
                  \A j \in 1..Len(DirsBefore) : NeedsWrite(j) => extensions[j] # DirsBefore[j]

\* C22: a migrate run without --write modifies no file, whatever the
\* manifests contain, and still counts and lists every manifest that needs
\* migration; a run with --write rewrites exactly the manifest files whose
\* migration returned changed = True and leaves every other file unchanged.
C22_DryRunListsAndWriteRewrites ==
    DryRunModifiesNothing /\ DryRunListsAll /\ WriteRewritesExactly

\* the manifest of directory j has commands and breaks the extension schema
BreaksExtensionSchema(j) ==
    /\ DirsBefore[j].present
    /\ DirsBefore[j].commands # <<>>
    /\ ~validate_extension_manifest(DirsBefore[j])

\* C23: migrate writes no extension manifest file unless the migrated
\* document passes validate_extension_manifest: a manifest whose migrated
\* form violates the schema makes the migration fail and its file keeps
\* its previous content.
C23_OnlyValidManifestsAreWritten ==
    MigrateDone =>
        \A j \in 1..Len(DirsBefore) :
            /\ extensions[j] # DirsBefore[j] => validate_extension_manifest(extensions[j])
            /\ BreaksExtensionSchema(j) =>
                   /\ extensions[j] = DirsBefore[j]
                   /\ LoopEntered => batch.exit = 2

C23_Witness ==
    /\ LoopEntered /\ batch.write
    /\ \E j \in 2..Len(DirsBefore) :
           /\ BreaksExtensionSchema(j)
           /\ normalize_slug(Strip(DirsBefore[j].name)) # <<>>
           /\ \A k \in 1..(j - 1) : NeedsWrite(k) /\ extensions[k] # DirsBefore[k]
           /\ extensions[j] = DirsBefore[j]
    /\ batch.exit = 2

---------------------------------------------------------------------------
(* Properties of the policy validation (specification SpecPolicy) *)

PolicyChecked == batch.op = "policy"
Sections == {"origin", "upstream", "sync_button_policy", "scorecard", "schedule"}

\* the policy lacks a first-class section, or upstream.url
LacksSection(policy) ==
    \/ \E section \in Sections : Get(policy, section) = Null
    \/ Get(policy, "upstream").type = "object"
       /\ "url" \notin DOMAIN Get(policy, "upstream").fields

\* the policy with one section only, next to its version
OnlySection(policy, section) ==
    Obj([k \in DOMAIN policy.fields \cap {"version", section} |-> policy.fields[k]])

\* the policy without one section
WithoutSection(policy, section) ==
    Obj([k \in DOMAIN policy.fields \ {section} |-> policy.fields[k]])

\* C24: in strict mode validate_migration_sync_policy rejects every policy
\* that lacks one of origin, upstream, sync_button_policy, scorecard,
\* schedule or upstream.url; in non-strict mode an absent section is
\* accepted and a present section is checked by the same rules as in strict
\* mode; so a policy accepted in strict mode is accepted in non-strict mode.
C24_StrictRequiresTheSections ==
    PolicyChecked =>
        /\ (batch.strict /\ LacksSection(config.policy)) => batch.error # "none"
        /\ (batch.strict /\ batch.error = "none")
               => validate_migration_sync_policy(config.policy, FALSE) = "none"
        /\ ~LacksSection(config.policy)
               => validate_migration_sync_policy(config.policy, TRUE)
                      = validate_migration_sync_policy(config.policy, FALSE)
        /\ ~batch.strict =>
               \A section \in Sections :
                   /\ batch.error = section
                          => validate_migration_sync_policy(
                                 OnlySection(config.policy, section), FALSE) = section
                   /\ batch.error = "none"
                          => validate_migration_sync_policy(
                                 WithoutSection(config.policy, section), FALSE) = "none"

C24_Witness ==
    /\ PolicyChecked /\ batch.strict /\ batch.error = "schedule"
    /\ Get(config.policy, "schedule") = Null
    /\ validate_migration_sync_policy(config.policy, FALSE) = "none"
    /\ Get(config.policy, "scorecard") # Null

---------------------------------------------------------------------------
(* Properties of the contracts check (specification SpecCheck) *)

CheckDone == batch.op = "check"
Checked == CheckDone /\ batch.repo_ok
Reported == Range(batch.issues)
ReportedFor(i) == {issue \in Reported : issue.dir = i}

\* entrypoint k of the manifest of directory i does not name a file of the
\* repository
EntrypointMissing(i, k) ==
    ~IsFile(fs, Resolve(RepoRoot, PathParts(extensions[i].entrypoints[k].path)))

\* something is wrong with extension directory i
Faulty(i) ==
    \/ ~extensions[i].present
    \/ ~validate_extension_manifest(extensions[i])
    \/ \E k \in 1..Len(extensions[i].entrypoints) : EntrypointMissing(i, k)

\* C25: the contracts check is a batch operation: one run reports the
\* issues of every extension directory (missing manifest.json, invalid
\* manifest, unsafe or missing entrypoint path) and the policy and state
\* manifest issues, and never stops at the first failing document; with
\* --strict the exit status is non-zero exactly when something was reported.
C25_CheckReportsEveryDocument ==
    /\ (Checked /\ config.extensions_dir) =>
           \A i \in 1..Len(extensions) :
               /\ Faulty(i) <=> ReportedFor(i) # {}
               /\ ~extensions[i].present
                      => [dir |-> i, issue |-> "missing manifest.json", at |-> 0] \in Reported
               /\ (extensions[i].present /\ ~validate_extension_manifest(extensions[i]))
                      => [dir |-> i, issue |-> "invalid manifest", at |-> 0] \in Reported
               /\ (extensions[i].present /\ validate_extension_manifest(extensions[i]))
                      => \A k \in 1..Len(extensions[i].entrypoints) :
                             EntrypointMissing(i, k)
                                 <=> [dir |-> i, issue |-> "entrypoint path missing", at |-> k]
                                         \in Reported
    /\ Checked =>
           /\ (config.policy = Absent
                   \/ validate_migration_sync_policy(config.policy, TRUE) # "none")
                  <=> [dir |-> 0, issue |-> "policy", at |-> 0] \in Reported
           /\ (~config.state_manifest.present
                   \/ ~validate_state_migration_manifest(config.state_manifest))
                  <=> [dir |-> 0, issue |-> "state manifest", at |-> 0] \in Reported
           /\ ~config.extensions_dir
                  <=> [dir |-> 0, issue |-> "extensions directory missing", at |-> 0]
                          \in Reported
    /\ (CheckDone /\ batch.strict) =>
           (batch.exit # 0 <=> (batch.issues # <<>> \/ ~batch.repo_ok))
    /\ (CheckDone /\ ~batch.strict /\ batch.repo_ok) => batch.exit = 0

C25_Witness ==
    /\ Checked /\ batch.strict /\ batch.exit = 1
    /\ Len(extensions) = 3
    /\ \A i \in 1..3 : ReportedFor(i) # {}
    /\ extensions[1] = Nameless
    /\ Cardinality(ReportedFor(2)) = 2
    /\ ~extensions[3].present
    /\ ReportedFor(0) = {[dir |-> 0, issue |-> "policy", at |-> 0],
                         [dir |-> 0, issue |-> "state manifest", at |-> 0]}

---------------------------------------------------------------------------
(* Properties of the package manifest validation (specification SpecDigest) *)

PackageChecked == batch.op = "package"

\* exactly 64 characters, each a lowercase hexadecimal digit
LowercaseHex64(sha256) ==
    Len(sha256) = DigestLen /\ \A i \in 1..Len(sha256) : sha256[i] \in Range(HexDigits)

\* C26: validate_package_manifest accepts an entry only if its sha256 is
\* exactly 64 characters, each a lowercase hexadecimal digit; a digest with
\* an uppercase letter, another character or another length is rejected.
C26_DigestIsLowercaseHex ==
    (PackageChecked /\ batch.error = "none")
        => \A i \in 1..Len(pkg_manifest.entries) :
               LowercaseHex64(pkg_manifest.entries[i].sha256)

\* key i of the manifest is already <namespace>/<suffix> with a suffix that
\* is its own slug
AlreadyNamespaced(i) ==
    /\ IsPrefix(Namespace \o <<Sep>>, Before.commands[i].key)
    /\ AfterFirstSep(Before.commands[i].key) # <<>>
    /\ normalize_slug(AfterFirstSep(Before.commands[i].key))
           = AfterFirstSep(Before.commands[i].key)

\* C27: a command key that is already <namespace>/<suffix> with suffix equal
\* to its own slug keeps exactly that key after migration, whatever other
\* keys the manifest declares and in whatever order.
C27_NamespacedKeyIsKept ==
    Migrated =>
        \A i \in 1..Len(Before.commands) :
            AlreadyNamespaced(i) => NewKey(i) = Before.commands[i].key

\* C29: migration loses no command: when _migrate_extension_manifest
\* succeeds, the migrated commands mapping has as many entries as the
\* original, in the original declaration order, and the i-th migrated key
\* maps to the path of the i-th original key, even when several original
\* keys slug to the same suffix.
C29_MigrationLosesNoCommand ==
    Migrated =>
        /\ Len(After.commands) = Len(Before.commands)
        /\ \A i \in 1..Len(Before.commands) :
               After.commands[i].path = Before.commands[i].path
        /\ \A i, j \in 1..Len(After.commands) :
               i # j => After.commands[i].key # After.commands[j].key

C29_Witness ==
    /\ Rekeyed
    /\ Len(Before.commands) = MaxCommands
    /\ \E i, j, k \in 1..Len(Before.commands) :
           i < j /\ j < k /\ SuffixOf(i) = SuffixOf(j) /\ SuffixOf(j) = SuffixOf(k)
    /\ Len(After.commands) = MaxCommands

---------------------------------------------------------------------------
(* Properties of fresh and of stopped exports (specification SpecFresh) *)

\* C28: every package_manifest.json written by a successful export is
\* accepted by validate_package_manifest, for every migration manifest the
\* exporter itself accepts (version 0 or negative, no package_name, empty
\* required_files included); so the import of a freshly exported package
\* never fails schema validation.
C28_FreshExportPassesValidation ==
    /\ (ExportDone /\ last.exit = 0) => validate_package_manifest(pkg_manifest) = "none"
    /\ (ImportDone /\ exported.valid) => last.outcome # "invalid"


\* the export run just made was stopped in its payload loop
ExportWasStopped == ExportDone /\ last.outcome = "stopped"

\* the package directory still is what a stopped export left behind
PackageIsPartial == ~exported.valid /\ "stopped" \in DOMAIN exported

\* the entries of the manifest whose payload file is not in the package
MissingPayload == {e \in EntrySet : ~IsFile(fs, PayloadOf(e))}

\* C30: export writes package_manifest.json before it copies any payload
\* file: a package that holds a payload file holds a manifest, and an export
\* without --dry-run that is stopped after the manifest write and before the
\* last payload copy leaves the manifest of all its entries with some payload
\* file absent.  Every such package is refused by an import without
\* --dry-run, which writes nothing to the target.
C30_PartialPackageIsRefused ==
    /\ FilesBelow(fs, PayloadRoot) # {} => pkg_manifest.exists
    /\ ExportWasStopped =>
           /\ pkg_manifest.exists
           /\ ~pkg_manifest.dry_run_preview
           /\ pkg_manifest.entries = last.entries
           /\ MissingPayload # {}
    /\ (RealImport /\ PackageIsPartial) =>
           /\ last.exit # 0
           /\ TargetUnchanged

\* a real import refused on a package whose export stopped after the first
\* of two payload copies
C30_Witness ==
    /\ RealImport
    /\ PackageIsPartial
    /\ exported.after = 1
    /\ Len(Entries) = 2
    /\ Cardinality(MissingPayload) = 1
    /\ last.exit # 0

====
